---- MODULE Spec2Model ----
(***************************************************************************)
(* Model of the AR Earth demo's input pipeline: the EarthModel transform   *)
(* (src/unnamed/part_003), the GestureController classifier and emitter    *)
(* (src/js/gesture-controller.js) and the AREarthApp arbiter               *)
(* (src/js/main.js).                                                       *)
(*                                                                         *)
(* Numbers are fixed point, so that every value of the JavaScript code is  *)
(* an integer here:                                                        *)
(*   time              milliseconds (Date.now())                           *)
(*   scale             1/100000          (0.5 is 50000)                    *)
(*   rotation          1/100000 radian   (PI/2 is 157079)                  *)
(*   zoom factor       1/100             (1.02 is 102)                     *)
(*   rotate deltas     1/100             (5 is 500, 50px*0.01 is 50)       *)
(*   landmark x, y     1/100             (0.30 is 30)                      *)
(*   position          1/100                                               *)
(*   easing            1/1000                                              *)
(* The scale vector of the Earth group is uniform in every operation of    *)
(* the code (setScalar, lerpVectors between uniform vectors), so it is one *)
(* number here.                                                            *)
(***************************************************************************)
EXTENDS Integers, Sequences, FiniteSets, TLC

VARIABLES
    now,              \* Date.now()
    steps,            \* number of callbacks run so far (bounds the exploration)
    clockAdvanced,    \* the clock moved since the last callback
    scale,            \* earthGroup.scale (uniform)
    rotation,         \* earthGroup.rotation  [x, y, z]
    position,         \* earthGroup.position  [x, y, z]
    animations,       \* animate closures waiting in requestAnimationFrame
    lastGestureTime,  \* AREarthApp.lastGestureTime
    lastHandPosition, \* GestureController.lastHandPosition
    currentGesture,   \* GestureController.currentGesture
    gestureStartTime, \* GestureController.gestureStartTime
    gestureQueue,     \* GestureController.gestureQueue
    indicator,        \* the #gesture-indicator element [active, text]
    isARActive,       \* ARManager.isARActive
    touchStartX,      \* setupTouchControls: touchStartX (pixels)
    touchStartY,      \* setupTouchControls: touchStartY (pixels)
    lastTouchTime,    \* setupTouchControls: lastTouchTime
    inScene,          \* the Earth group is a child of the scene
    isInitialized,    \* GestureController.isInitialized
    cameraStarted,    \* the camera loop feeding hands.send is running
    initResult,       \* what GestureController.init() did: "pending", "true",
                      \* "false" or "threw"
    log,              \* history: one record per landmark callback
    events,           \* history: one record per touch, key, anchor or
                      \* dispose callback
    finished,         \* history: one record per last step of an animation
    arManager,        \* ARManager's fields other than isARActive
    xr,               \* the browser's WebXR device: its immersive sessions
    starts,           \* startARSession calls waiting at an await
    arLog,            \* history: one record per call, return and event of
                      \* the AR session lifecycle
    swipeThreshold,   \* GestureController.swipeThreshold (1/100)
    earthMesh,        \* EarthModel.earthMesh (rotation.y)
    cloudsMesh,       \* EarthModel.cloudsMesh (rotation.y), or no mesh
    clock,            \* AREarthApp.clock (THREE.Clock)
    config,           \* EarthModel.config
    loads,            \* the init() calls of the EarthModel waiting for their
                      \* model or textures, in the order they were made
    basicMesh,        \* the sphere of createBasicEarthFallback
    basicCall,        \* history: the last call made to the basic controller
    inFlight,         \* hands.send() has an image whose result is not delivered
    arEarthApp,       \* window.arEarthApp is defined
    appInit           \* AREarthApp.init(): the await it waits at, or done

earthVars == <<scale, rotation, position, animations>>
gestureVars == <<lastHandPosition, currentGesture, gestureStartTime, gestureQueue, indicator,
                 swipeThreshold>>
inputVars == <<isARActive, touchStartX, touchStartY, lastTouchTime>>
lifeVars == <<inScene, isInitialized, cameraStarted, initResult>>
arVars == <<arManager, xr, starts, arLog>>
meshVars == <<earthMesh, cloudsMesh, clock, config, loads>>
basicVars == <<basicMesh, basicCall>>
pageVars == <<meshVars, basicVars, inFlight, arEarthApp, appInit>>
vars == <<now, steps, clockAdvanced, scale, rotation, position, animations,
          lastGestureTime, lastHandPosition, currentGesture, gestureStartTime,
          gestureQueue, indicator, isARActive, touchStartX, touchStartY,
          lastTouchTime, inScene, isInitialized, cameraStarted, initResult,
          log, events, finished, arManager, xr, starts, arLog, earthMesh,
          cloudsMesh, clock, basicMesh, basicCall, inFlight, arEarthApp,
          swipeThreshold, config, loads, appInit>>

(***************************************************************************)
(* Bounds of the exploration.                                              *)
(***************************************************************************)
MaxTransformSteps == 4
MaxClassifyFrames == 2
MaxSwipeFrames == 3
MaxIncrementalFrames == 5
MaxHoldFrames == 4
MaxEmitFrames == 4
MaxDebounceFrames == 4
MaxZoomFrames == 5
MaxTouchSteps == 4
MaxKeySteps == 4
MaxResetCommands == 3
MaxDisposeSteps == 4
MaxAnchorSteps == 4
MaxStartupSteps == 4
StartTime == 100000

(***************************************************************************)
(* Program constants, in the units above.                                  *)
(***************************************************************************)
ScaleMin == 10000
ScaleMax == 300000
OriginalScale == 50000
rotationSpeed == 500
cloudsRotationSpeed == 300
DefaultScale == 100000
basicRotationStep == 500
HalfPi == 157079
FactorOne == 100
RotStep == 10
EaseOne == 1000
AnimDuration == 1000
gestureDebounce == 100
maxGestureHistory == 5
DefaultSwipeThreshold == 10
SwipeMaxTime == 500
ResetHoldTime == 500
QueueWindow == 1000
DoubleTapTime == 300

null == "null"
nullPosition == [none |-> TRUE]

(***************************************************************************)
(* EarthModel                                                              *)
(***************************************************************************)
clamp(value, lo, hi) == IF value < lo THEN lo ELSE IF value > hi THEN hi ELSE value

originalRotation == [x |-> 0, y |-> 0, z |-> 0]

\* a mesh that was not created
noMesh == [none |-> TRUE]
originalPosition == [x |-> 0, y |-> 0, z |-> -200]

\* EarthModel.config as the constructor leaves it when AREarthApp passes no
\* options: the fields the model reads
DefaultTexturePaths == {"diffuse", "normal", "specular", "clouds"}
DefaultConfig ==
    [radius |-> 50, position |-> originalPosition, useGLTF |-> FALSE,
     texturePaths |-> DefaultTexturePaths]

\* mutant of zoom: the clamp is forgotten
zoomUnclamped(factor) == scale' = (scale * factor) \div FactorOne

zoom(factor) ==
    LET newScale == (scale * factor) \div FactorOne
        clampedScale == clamp(newScale, ScaleMin, ScaleMax)
    IN  scale' = clampedScale

\* mutant of rotate: the clamp of rotation.x is forgotten
rotateUnclamped(deltaX, deltaY) ==
    rotation' = [rotation EXCEPT !.y = @ + deltaX * RotStep,
                                 !.x = @ + deltaY * RotStep]

rotate(deltaX, deltaY) ==
    rotation' = [rotation EXCEPT !.y = @ + deltaX * RotStep,
                                 !.x = clamp(@ + deltaY * RotStep, -HalfPi, HalfPi)]

setPosition(x, y, z) == position' = [x |-> x, y |-> y, z |-> z]

\* THREE.MathUtils.lerp(x, y, t) = (1 - t) * x + t * y
lerp(x, y, t) == ((EaseOne - t) * x + t * y) \div EaseOne

\* Vector3.lerpVectors(v1, v2, alpha) = v1 + (v2 - v1) * alpha
lerpVectors(v1, v2, alpha) == v1 + ((v2 - v1) * alpha) \div EaseOne

\* mutant of easeOutCubic: the easing stops short of 1
easeOutCubicShort(elapsed, duration) ==
    LET e == IF elapsed > duration THEN duration ELSE elapsed
        rest == ((duration - e) * EaseOne) \div duration
        ease == EaseOne - (rest * rest * rest) \div (EaseOne * EaseOne)
    IN  IF ease >= EaseOne THEN EaseOne - 1 ELSE ease

\* 1 - Math.pow(1 - progress, 3), progress = min(elapsed / duration, 1)
easeOutCubic(elapsed, duration) ==
    LET e == IF elapsed > duration THEN duration ELSE elapsed
        rest == ((duration - e) * EaseOne) \div duration
    IN  EaseOne - (rest * rest * rest) \div (EaseOne * EaseOne)

\* one run of the closure animate of animateToTransform at time t: what it
\* writes to the group, and whether it schedules itself again
animate(a, t) ==
    LET elapsed == t - a.startTime
        ease == easeOutCubic(elapsed, a.duration)
    IN  [rotation |-> [x |-> lerp(a.startRotation.x, a.targetRotation.x, ease),
                       y |-> lerp(a.startRotation.y, a.targetRotation.y, ease),
                       z |-> lerp(a.startRotation.z, a.targetRotation.z, ease)],
         scale |-> lerpVectors(a.startScale, a.targetScale, ease),
         again |-> elapsed < a.duration]

animateToTransform(targetRotation, targetScale, duration) ==
    LET a == [startRotation |-> rotation, startScale |-> scale, startTime |-> now,
              targetRotation |-> targetRotation, targetScale |-> targetScale,
              duration |-> duration]
        first == animate(a, now)
    IN  /\ rotation' = first.rotation
        /\ scale' = first.scale
        /\ animations' = IF first.again THEN Append(animations, a) ELSE animations

resetOrientation == animateToTransform(originalRotation, OriginalScale, AnimDuration)

\* the group after the closures q have run in order at time t
RECURSIVE runCallbacks(_, _, _)
runCallbacks(q, t, group) ==
    IF q = <<>> THEN group
    ELSE LET w == animate(Head(q), t)
         IN  runCallbacks(Tail(q), t, [rotation |-> w.rotation, scale |-> w.scale])

(***************************************************************************)
(* GestureController                                                       *)
(***************************************************************************)
\* extended[0..4]: thumb, index, middle, ring, pinky
\* getExtendedFingers counting a finger whose tip is level with its base
getExtendedFingersLevel(landmarks) ==
    [i \in 0..4 |->
        IF i = 0 THEN landmarks[4].x > landmarks[3].x
        ELSE LET tipIndex == 4 + (i * 4)
                 baseIndex == tipIndex - 2
             IN  landmarks[tipIndex].y <= landmarks[baseIndex].y]

getExtendedFingers(landmarks) ==
    [i \in 0..4 |->
        IF i = 0 THEN landmarks[4].x > landmarks[3].x
        ELSE LET tipIndex == 4 + (i * 4)
                 baseIndex == tipIndex - 2
             IN  landmarks[tipIndex].y < landmarks[baseIndex].y]

abs(v) == IF v < 0 THEN -v ELSE v

\* the thresholds calibrate() is given here, in hundredths
Thresholds == {10, 20}

\* coordinates are the doubles nearest to hundredths.  For two of them that
\* lie t hundredths apart the difference the code computes, (lo + t)/100 -
\* lo/100 in doubles, is greater than the double t/100 for these lo and not
\* greater for every other lo in 0..(100 - t)
RoundsAbove ==
    [t \in Thresholds |->
        IF t = 10
        THEN {18, 24, 29, 30, 35, 36, 41, 42, 43, 44, 45, 46, 57, 58, 69, 70, 71, 82, 83}
        ELSE {35, 36, 47, 48, 57, 58, 59, 60, 61, 69, 70, 71, 72, 73}]

\* Math.abs(deltaX) > this.swipeThreshold for deltaX = x - lastX in doubles
exceeds(x, lastX, threshold) ==
    LET lo == IF x < lastX THEN x ELSE lastX
    IN  \/ abs(x - lastX) > threshold
        \/ abs(x - lastX) = threshold /\ lo \in RoundsAbove[threshold]

\* mutant of detectSwipe: the tracked sample is kept when no swipe fires, so
\* movement accumulates over frames
detectSwipeCumulative(indexTip, last, t) ==
    IF last = nullPosition
    THEN [ret |-> null,
          lastHandPosition |-> [x |-> indexTip.x, y |-> indexTip.y, time |-> t]]
    ELSE LET deltaX == indexTip.x - last.x
             deltaTime == t - last.time
             fired == exceeds(indexTip.x, last.x, swipeThreshold) /\ deltaTime < SwipeMaxTime
         IN  [ret |-> IF fired THEN (IF deltaX > 0 THEN "swipe_right" ELSE "swipe_left")
                      ELSE null,
              lastHandPosition |->
                  IF fired THEN [x |-> indexTip.x, y |-> indexTip.y, time |-> t]
                  ELSE last]

\* mutant of detectSwipe: the comparisons are not strict
detectSwipeLoose(indexTip, last, t) ==
    IF last = nullPosition
    THEN [ret |-> null,
          lastHandPosition |-> [x |-> indexTip.x, y |-> indexTip.y, time |-> t]]
    ELSE LET deltaX == indexTip.x - last.x
             deltaTime == t - last.time
         IN  [ret |-> IF abs(deltaX) >= swipeThreshold /\ deltaTime <= SwipeMaxTime
                      THEN (IF deltaX > 0 THEN "swipe_right" ELSE "swipe_left")
                      ELSE null,
              lastHandPosition |-> [x |-> indexTip.x, y |-> indexTip.y, time |-> t]]

\* detectSwipe(indexTip) with this.lastHandPosition = last at time t: the value
\* returned and the new this.lastHandPosition
detectSwipe(indexTip, last, t) ==
    IF last = nullPosition
    THEN [ret |-> null,
          lastHandPosition |-> [x |-> indexTip.x, y |-> indexTip.y, time |-> t]]
    ELSE LET deltaX == indexTip.x - last.x
             deltaY == indexTip.y - last.y
             deltaTime == t - last.time
         IN  [ret |-> IF exceeds(indexTip.x, last.x, swipeThreshold)
                         /\ deltaTime < SwipeMaxTime
                      THEN (IF deltaX > 0 THEN "swipe_right" ELSE "swipe_left")
                      ELSE null,
              lastHandPosition |-> [x |-> indexTip.x, y |-> indexTip.y, time |-> t]]

\* mutant of recognizeGesture: the open-palm test comes after the swipe test
recognizeGestureSwipeFirst(landmarks, last, t) ==
    LET extendedFingers == getExtendedFingers(landmarks)
        extendedCount == Cardinality({i \in 0..4 : extendedFingers[i]})
    IN  IF extendedCount = 1 /\ extendedFingers[1]
        THEN [ret |-> "zoom_in", lastHandPosition |-> last]
        ELSE IF extendedCount = 2 /\ extendedFingers[1] /\ extendedFingers[2]
        THEN [ret |-> "zoom_out", lastHandPosition |-> last]
        ELSE IF extendedCount >= 2
        THEN LET swipe == detectSwipe(landmarks[8], last, t)
             IN  IF swipe.ret # null THEN swipe
                 ELSE IF extendedCount >= 4
                 THEN [ret |-> "reset", lastHandPosition |-> swipe.lastHandPosition]
                 ELSE swipe
        ELSE [ret |-> null, lastHandPosition |-> last]

\* recognizeGesture(landmarks) with this.lastHandPosition = last at time t: the
\* label returned and the new this.lastHandPosition
\* recognizeGesture sampling the index fingertip in every branch
recognizeGestureAlwaysTracks(landmarks, last, t) ==
    LET extendedFingers == getExtendedFingers(landmarks)
        extendedCount == Cardinality({i \in 0..4 : extendedFingers[i]})
        sampled == detectSwipe(landmarks[8], last, t)
    IN  IF extendedCount = 1 /\ extendedFingers[1]
        THEN [ret |-> "zoom_in", lastHandPosition |-> sampled.lastHandPosition]
        ELSE IF extendedCount = 2 /\ extendedFingers[1] /\ extendedFingers[2]
        THEN [ret |-> "zoom_out", lastHandPosition |-> sampled.lastHandPosition]
        ELSE IF extendedCount >= 4
        THEN [ret |-> "reset", lastHandPosition |-> sampled.lastHandPosition]
        ELSE IF extendedCount >= 2
        THEN sampled
        ELSE [ret |-> null, lastHandPosition |-> sampled.lastHandPosition]

recognizeGesture(landmarks, last, t) ==
    LET extendedFingers == getExtendedFingers(landmarks)
        extendedCount == Cardinality({i \in 0..4 : extendedFingers[i]})
    IN  IF extendedCount = 1 /\ extendedFingers[1]
        THEN [ret |-> "zoom_in", lastHandPosition |-> last]
        ELSE IF extendedCount = 2 /\ extendedFingers[1] /\ extendedFingers[2]
        THEN [ret |-> "zoom_out", lastHandPosition |-> last]
        ELSE IF extendedCount >= 4
        THEN [ret |-> "reset", lastHandPosition |-> last]
        ELSE IF extendedCount >= 2
        THEN detectSwipe(landmarks[8], last, t)
        ELSE [ret |-> null, lastHandPosition |-> last]

NoCommand == [type |-> "none"]

\* mutant of gestureCommand: the two swipe directions are exchanged
gestureCommandMirrored(gesture, t, startTime) ==
    CASE gesture = "zoom_in" -> [type |-> "zoom", value |-> 102, continuous |-> TRUE]
      [] gesture = "zoom_out" -> [type |-> "zoom", value |-> 98, continuous |-> TRUE]
      [] gesture = "swipe_left" ->
            [type |-> "rotate", deltaX |-> 500, deltaY |-> 0, continuous |-> FALSE]
      [] gesture = "swipe_right" ->
            [type |-> "rotate", deltaX |-> -500, deltaY |-> 0, continuous |-> FALSE]
      [] gesture = "reset" ->
            IF t - startTime > ResetHoldTime
            THEN [type |-> "reset", continuous |-> FALSE]
            ELSE NoCommand
      [] OTHER -> NoCommand

\* mutant of gestureCommand: the open palm resets without being held
gestureCommandNoHold(gesture, t, startTime) ==
    CASE gesture = "zoom_in" -> [type |-> "zoom", value |-> 102, continuous |-> TRUE]
      [] gesture = "zoom_out" -> [type |-> "zoom", value |-> 98, continuous |-> TRUE]
      [] gesture = "swipe_left" ->
            [type |-> "rotate", deltaX |-> -500, deltaY |-> 0, continuous |-> FALSE]
      [] gesture = "swipe_right" ->
            [type |-> "rotate", deltaX |-> 500, deltaY |-> 0, continuous |-> FALSE]
      [] gesture = "reset" -> [type |-> "reset", continuous |-> FALSE]
      [] OTHER -> NoCommand

\* the switch of processGesture: the object handed to this.onGesture for a
\* label at time t, this.gestureStartTime being startTime
gestureCommand(gesture, t, startTime) ==
    CASE gesture = "zoom_in" -> [type |-> "zoom", value |-> 102, continuous |-> TRUE]
      [] gesture = "zoom_out" -> [type |-> "zoom", value |-> 98, continuous |-> TRUE]
      [] gesture = "swipe_left" ->
            [type |-> "rotate", deltaX |-> -500, deltaY |-> 0, continuous |-> FALSE]
      [] gesture = "swipe_right" ->
            [type |-> "rotate", deltaX |-> 500, deltaY |-> 0, continuous |-> FALSE]
      [] gesture = "reset" ->
            IF t - startTime > ResetHoldTime
            THEN [type |-> "reset", continuous |-> FALSE]
            ELSE NoCommand
      [] OTHER -> NoCommand

\* processGesture(gesture, landmarks) at time t: the new gestureQueue and the
\* command handed to this.onGesture
\* processGesture without the filter of line 256
processGestureNoPrune(gesture, t, startTime, queue) ==
    [gestureQueue |-> Append(queue, [gesture |-> gesture, time |-> t]),
     command |-> gestureCommand(gesture, t, startTime)]

processGesture(gesture, t, startTime, queue) ==
    LET pushed == Append(queue, [gesture |-> gesture, time |-> t])
        recent(g) == t - g.time < QueueWindow
    IN  [gestureQueue |-> SelectSeq(pushed, recent),
         command |-> gestureCommand(gesture, t, startTime)]

indicatorText(gesture) ==
    CASE gesture = "zoom_in" -> "Zooming In"
      [] gesture = "zoom_out" -> "Zooming Out"
      [] gesture = "swipe_left" -> "Rotating Left"
      [] gesture = "swipe_right" -> "Rotating Right"
      [] gesture = "reset" -> "Reset (Hold)"
      [] OTHER -> "Gesture Detected"

\* mutant of updateGestureIndicator: the indicator is never deactivated
updateGestureIndicatorSticky(gesture) ==
    IF gesture # null
    THEN [active |-> TRUE, text |-> indicatorText(gesture)]
    ELSE indicator

updateGestureIndicator(gesture) ==
    IF gesture # null
    THEN [active |-> TRUE, text |-> indicatorText(gesture)]
    ELSE [active |-> FALSE, text |-> indicator.text]

\* mutant of onHandsResults: a frame without a hand leaves currentGesture as
\* it was
onHandsResultsKeepsGesture(results, t) ==
    IF Len(results.multiHandLandmarks) = 0
    THEN [currentGesture |-> currentGesture,
          gestureStartTime |-> gestureStartTime,
          lastHandPosition |-> lastHandPosition,
          gestureQueue |-> gestureQueue,
          indicator |-> updateGestureIndicator(null),
          gesture |-> null,
          command |-> NoCommand]
    ELSE LET landmarks == results.multiHandLandmarks[1]
             r == recognizeGesture(landmarks, lastHandPosition, t)
             gesture == r.ret
             changed == gesture # currentGesture
             startTime == IF changed THEN t ELSE gestureStartTime
             p == IF gesture # null
                  THEN processGesture(gesture, t, startTime, gestureQueue)
                  ELSE [gestureQueue |-> gestureQueue, command |-> NoCommand]
         IN  [currentGesture |-> IF changed THEN gesture ELSE currentGesture,
              gestureStartTime |-> startTime,
              lastHandPosition |-> r.lastHandPosition,
              gestureQueue |-> p.gestureQueue,
              indicator |-> IF changed THEN updateGestureIndicator(gesture)
                            ELSE indicator,
              gesture |-> gesture,
              command |-> p.command]

\* mutant of onHandsResults: a frame without a hand that changes the current
\* gesture sets gestureStartTime
onHandsResultsStampsNoHand(results, t) ==
    IF Len(results.multiHandLandmarks) = 0
    THEN [currentGesture |-> null,
          gestureStartTime |-> IF currentGesture # null THEN t ELSE gestureStartTime,
          lastHandPosition |-> lastHandPosition,
          gestureQueue |-> gestureQueue,
          indicator |-> updateGestureIndicator(null),
          gesture |-> null,
          command |-> NoCommand]
    ELSE LET landmarks == results.multiHandLandmarks[1]
             r == recognizeGesture(landmarks, lastHandPosition, t)
             gesture == r.ret
             changed == gesture # currentGesture
             startTime == IF changed THEN t ELSE gestureStartTime
             p == IF gesture # null
                  THEN processGesture(gesture, t, startTime, gestureQueue)
                  ELSE [gestureQueue |-> gestureQueue, command |-> NoCommand]
         IN  [currentGesture |-> IF changed THEN gesture ELSE currentGesture,
              gestureStartTime |-> startTime,
              lastHandPosition |-> r.lastHandPosition,
              gestureQueue |-> p.gestureQueue,
              indicator |-> IF changed THEN updateGestureIndicator(gesture)
                            ELSE indicator,
              gesture |-> gesture,
              command |-> p.command]

\* onHandsResults(results) at time t: the new fields of the controller, the
\* label of the frame and the command handed to this.onGesture (NoCommand:
\* this.onGesture is not called)
\* onHandsResults forgetting the last fingertip position when the hand is lost
onHandsResultsClearsPosition(results, t) ==
    IF Len(results.multiHandLandmarks) = 0
    THEN [currentGesture |-> null,
          gestureStartTime |-> gestureStartTime,
          lastHandPosition |-> nullPosition,
          gestureQueue |-> gestureQueue,
          indicator |-> updateGestureIndicator(null),
          gesture |-> null,
          command |-> NoCommand]
    ELSE LET landmarks == results.multiHandLandmarks[1]
             r == recognizeGesture(landmarks, lastHandPosition, t)
             gesture == r.ret
             changed == gesture # currentGesture
             startTime == IF changed THEN t ELSE gestureStartTime
             p == IF gesture # null
                  THEN processGesture(gesture, t, startTime, gestureQueue)
                  ELSE [gestureQueue |-> gestureQueue, command |-> NoCommand]
         IN  [currentGesture |-> IF changed THEN gesture ELSE currentGesture,
              gestureStartTime |-> startTime,
              lastHandPosition |-> r.lastHandPosition,
              gestureQueue |-> p.gestureQueue,
              indicator |-> IF changed THEN updateGestureIndicator(gesture)
                            ELSE indicator,
              gesture |-> gesture,
              command |-> p.command]

\* mutant of onHandsResults: a hand without a label leaves the indicator as
\* it was
onHandsResultsShowsLabelsOnly(results, t) ==
    IF Len(results.multiHandLandmarks) = 0
    THEN [currentGesture |-> null,
          gestureStartTime |-> gestureStartTime,
          lastHandPosition |-> lastHandPosition,
          gestureQueue |-> gestureQueue,
          indicator |-> updateGestureIndicator(null),
          gesture |-> null,
          command |-> NoCommand]
    ELSE LET landmarks == results.multiHandLandmarks[1]
             r == recognizeGesture(landmarks, lastHandPosition, t)
             gesture == r.ret
             changed == gesture # currentGesture
             startTime == IF changed THEN t ELSE gestureStartTime
             p == IF gesture # null
                  THEN processGesture(gesture, t, startTime, gestureQueue)
                  ELSE [gestureQueue |-> gestureQueue, command |-> NoCommand]
         IN  [currentGesture |-> IF changed THEN gesture ELSE currentGesture,
              gestureStartTime |-> startTime,
              lastHandPosition |-> r.lastHandPosition,
              gestureQueue |-> p.gestureQueue,
              indicator |-> IF changed /\ gesture # null
                            THEN updateGestureIndicator(gesture)
                            ELSE indicator,
              gesture |-> gesture,
              command |-> p.command]

onHandsResults(results, t) ==
    IF Len(results.multiHandLandmarks) = 0
    THEN [currentGesture |-> null,
          gestureStartTime |-> gestureStartTime,
          lastHandPosition |-> lastHandPosition,
          gestureQueue |-> gestureQueue,
          indicator |-> updateGestureIndicator(null),
          gesture |-> null,
          command |-> NoCommand]
    ELSE LET landmarks == results.multiHandLandmarks[1]
             r == recognizeGesture(landmarks, lastHandPosition, t)
             gesture == r.ret
             changed == gesture # currentGesture
             startTime == IF changed THEN t ELSE gestureStartTime
             p == IF gesture # null
                  THEN processGesture(gesture, t, startTime, gestureQueue)
                  ELSE [gestureQueue |-> gestureQueue, command |-> NoCommand]
         IN  [currentGesture |-> IF changed THEN gesture ELSE currentGesture,
              gestureStartTime |-> startTime,
              lastHandPosition |-> r.lastHandPosition,
              gestureQueue |-> p.gestureQueue,
              indicator |-> IF changed THEN updateGestureIndicator(gesture)
                            ELSE indicator,
              gesture |-> gesture,
              command |-> p.command]

(***************************************************************************)
(* AREarthApp                                                              *)
(***************************************************************************)
NoCall == [op |-> "none"]

\* mutant of onGesture: no command is dropped
onGestureNoDebounce(gestureData, t) ==
    IF FALSE
    THEN [call |-> NoCall, lastGestureTime |-> lastGestureTime]
    ELSE CASE gestureData.type = "zoom" ->
                [call |-> [op |-> "zoom", factor |-> gestureData.value],
                 lastGestureTime |-> IF ~gestureData.continuous THEN t
                                     ELSE lastGestureTime]
           [] gestureData.type = "rotate" ->
                [call |-> [op |-> "rotate", deltaX |-> gestureData.deltaX,
                           deltaY |-> gestureData.deltaY],
                 lastGestureTime |-> t]
           [] gestureData.type = "reset" ->
                [call |-> [op |-> "resetOrientation"], lastGestureTime |-> t]
           [] OTHER -> [call |-> NoCall, lastGestureTime |-> lastGestureTime]

\* mutant of onGesture: a continuous command is never dropped
onGestureContinuousBypass(gestureData, t) ==
    IF ~gestureData.continuous /\ t - lastGestureTime < gestureDebounce
    THEN [call |-> NoCall, lastGestureTime |-> lastGestureTime]
    ELSE CASE gestureData.type = "zoom" ->
                [call |-> [op |-> "zoom", factor |-> gestureData.value],
                 lastGestureTime |-> IF ~gestureData.continuous THEN t
                                     ELSE lastGestureTime]
           [] gestureData.type = "rotate" ->
                [call |-> [op |-> "rotate", deltaX |-> gestureData.deltaX,
                           deltaY |-> gestureData.deltaY],
                 lastGestureTime |-> t]
           [] gestureData.type = "reset" ->
                [call |-> [op |-> "resetOrientation"], lastGestureTime |-> t]
           [] OTHER -> [call |-> NoCall, lastGestureTime |-> lastGestureTime]

\* mutant of onGesture: an accepted zoom records its time as well
onGestureMarksZoom(gestureData, t) ==
    IF t - lastGestureTime < gestureDebounce
    THEN [call |-> NoCall, lastGestureTime |-> lastGestureTime]
    ELSE CASE gestureData.type = "zoom" ->
                [call |-> [op |-> "zoom", factor |-> gestureData.value],
                 lastGestureTime |-> t]
           [] gestureData.type = "rotate" ->
                [call |-> [op |-> "rotate", deltaX |-> gestureData.deltaX,
                           deltaY |-> gestureData.deltaY],
                 lastGestureTime |-> t]
           [] gestureData.type = "reset" ->
                [call |-> [op |-> "resetOrientation"], lastGestureTime |-> t]
           [] OTHER -> [call |-> NoCall, lastGestureTime |-> lastGestureTime]

\* onGesture restarting the debounce window when it drops a command
onGestureDropExtends(gestureData, t) ==
    IF t - lastGestureTime < gestureDebounce
    THEN [call |-> NoCall, lastGestureTime |-> t]
    ELSE CASE gestureData.type = "zoom" ->
                [call |-> [op |-> "zoom", factor |-> gestureData.value],
                 lastGestureTime |-> IF ~gestureData.continuous THEN t
                                     ELSE lastGestureTime]
           [] gestureData.type = "rotate" ->
                [call |-> [op |-> "rotate", deltaX |-> gestureData.deltaX,
                           deltaY |-> gestureData.deltaY],
                 lastGestureTime |-> t]
           [] gestureData.type = "reset" ->
                [call |-> [op |-> "resetOrientation"], lastGestureTime |-> t]
           [] OTHER -> [call |-> NoCall, lastGestureTime |-> lastGestureTime]

\* onGesture(gestureData) at time t: the call made on this.earthModel and the
\* new this.lastGestureTime.  this.earthModel is set before the gesture
\* controller is created, so it is never null here.
onGesture(gestureData, t) ==
    IF t - lastGestureTime < gestureDebounce
    THEN [call |-> NoCall, lastGestureTime |-> lastGestureTime]
    ELSE CASE gestureData.type = "zoom" ->
                [call |-> [op |-> "zoom", factor |-> gestureData.value],
                 lastGestureTime |-> IF ~gestureData.continuous THEN t
                                     ELSE lastGestureTime]
           [] gestureData.type = "rotate" ->
                [call |-> [op |-> "rotate", deltaX |-> gestureData.deltaX,
                           deltaY |-> gestureData.deltaY],
                 lastGestureTime |-> t]
           [] gestureData.type = "reset" ->
                [call |-> [op |-> "resetOrientation"], lastGestureTime |-> t]
           [] OTHER -> [call |-> NoCall, lastGestureTime |-> lastGestureTime]

\* perform with a reset that also puts the group back where it was created
performResetRecentres(call) ==
    CASE call.op = "zoom" ->
            zoom(call.factor) /\ UNCHANGED <<rotation, position, animations>>
      [] call.op = "rotate" ->
            rotate(call.deltaX, call.deltaY) /\ UNCHANGED <<scale, position, animations>>
      [] call.op = "resetOrientation" ->
            resetOrientation /\ position' = originalPosition
      [] call.op = "setPosition" ->
            setPosition(call.x, call.y, call.z)
               /\ UNCHANGED <<scale, rotation, animations>>
      [] OTHER -> UNCHANGED earthVars

\* the call made on the Earth model
perform(call) ==
    CASE call.op = "zoom" ->
            zoom(call.factor) /\ UNCHANGED <<rotation, position, animations>>
      [] call.op = "rotate" ->
            rotate(call.deltaX, call.deltaY) /\ UNCHANGED <<scale, position, animations>>
      [] call.op = "resetOrientation" ->
            resetOrientation /\ UNCHANGED position
      [] call.op = "setPosition" ->
            setPosition(call.x, call.y, call.z)
               /\ UNCHANGED <<scale, rotation, animations>>
      [] OTHER -> UNCHANGED earthVars

(***************************************************************************)
(* The environment: landmark sets, the clock, the callbacks.               *)
(***************************************************************************)
ExtensionVectors == [0..4 -> BOOLEAN]

\* a landmark set of 21 points whose fingers are extended as ext says and
\* whose index fingertip (landmark 8) is at tip
Hand(ext, tip) ==
    [k \in 0..20 |->
        IF k = 8 THEN tip
        ELSE IF k = 6 THEN [x |-> tip.x, y |-> IF ext[1] THEN tip.y + 10 ELSE tip.y - 10]
        ELSE IF k = 3 THEN [x |-> 50, y |-> 60]
        ELSE IF k = 4 THEN [x |-> IF ext[0] THEN 60 ELSE 40, y |-> 60]
        ELSE IF k \in {12, 16, 20} THEN [x |-> 50 + k, y |-> 40]
        ELSE IF k \in {10, 14, 18}
        THEN [x |-> 52 + k, y |-> IF ext[(k - 2) \div 4] THEN 50 ELSE 30]
        ELSE [x |-> 50, y |-> 70]]

\* what the claims about the Earth model and the arbiter look at
Snapshot ==
    [rotation |-> rotation, scale |-> scale, position |-> position,
     animations |-> animations, lastGestureTime |-> lastGestureTime]
SnapshotAfter ==
    [rotation |-> rotation', scale |-> scale', position |-> position',
     animations |-> animations', lastGestureTime |-> lastGestureTime']

\* one record of the history of callbacks
Record(kind, input, call) ==
    /\ events' = Append(events, [kind |-> kind, time |-> now, input |-> input,
                                 active |-> isARActive, call |-> call,
                                 before |-> Snapshot, after |-> SnapshotAfter])

Event(budget) ==
    /\ clockAdvanced
    /\ steps < budget
    /\ steps' = steps + 1
    /\ clockAdvanced' = FALSE
    /\ now' = now

\* the next callback starts gap milliseconds after the previous one
AdvanceTime(gaps) ==
    /\ ~clockAdvanced
    /\ \E gap \in gaps : now' = now + gap
    /\ clockAdvanced' = TRUE
    /\ UNCHANGED <<steps, earthVars, lastGestureTime, gestureVars, inputVars,
                   lifeVars, arVars, pageVars, log, events, finished>>

\* the landmark source delivers a frame: GestureController.onHandsResults and
\* everything it calls
Result(results, input) ==
    LET h == onHandsResults(results, now)
        g == IF h.command = NoCommand
             THEN [call |-> NoCall, lastGestureTime |-> lastGestureTime]
             ELSE onGesture(h.command, now)
    IN  /\ currentGesture' = h.currentGesture
        /\ gestureStartTime' = h.gestureStartTime
        /\ lastHandPosition' = h.lastHandPosition
        /\ gestureQueue' = h.gestureQueue
        /\ indicator' = h.indicator
        /\ UNCHANGED swipeThreshold
        /\ lastGestureTime' = g.lastGestureTime
        /\ perform(g.call)
        /\ log' = Append(log, [time |-> now, hand |-> input.hand, ext |-> input.ext,
                               tip |-> input.tip, before |-> lastHandPosition,
                               after |-> h.lastHandPosition,
                               landmarks |-> results.multiHandLandmarks,
                               extended |->
                                  IF Len(results.multiHandLandmarks) = 0
                                  THEN [i \in 0..4 |-> FALSE]
                                  ELSE getExtendedFingers(results.multiHandLandmarks[1]),
                               label |-> h.gesture, command |-> h.command,
                               call |-> g.call,
                               pre |-> [currentGesture |-> currentGesture,
                                        gestureStartTime |-> gestureStartTime,
                                        gestureQueue |-> gestureQueue,
                                        indicator |-> indicator,
                                        earth |-> Snapshot],
                               post |-> [currentGesture |-> h.currentGesture,
                                         gestureStartTime |-> h.gestureStartTime,
                                         gestureQueue |-> h.gestureQueue,
                                         indicator |-> h.indicator,
                                         earth |-> SnapshotAfter]])
        /\ UNCHANGED <<inputVars, lifeVars, arVars, meshVars, basicVars, arEarthApp, appInit,
                       events, finished>>

\* GestureController.calibrate(options): the new swipeThreshold (the two
\* other thresholds it can set are read nowhere)
calibrate(options) ==
    IF "swipeThreshold" \in DOMAIN options THEN options.swipeThreshold
    ELSE swipeThreshold

\* a caller of the public interface adjusts the sensitivity
Calibrate(settings, budget) ==
    /\ Event(budget)
    /\ UNCHANGED <<earthVars, lastGestureTime>>
    /\ \E options \in settings :
          /\ swipeThreshold' = calibrate(options)
          /\ Record("calibrate", options, NoCall)
    /\ UNCHANGED <<lastHandPosition, currentGesture, gestureStartTime, gestureQueue,
                   indicator, inputVars, lifeVars, arVars, pageVars, log, finished>>

\* the camera loop sends an image and MediaPipe answers with its landmarks
Frame(results, input) ==
    /\ cameraStarted
    /\ Result(results, input)
    /\ UNCHANGED inFlight

\* the result of an image sent before dispose() is delivered after it, with
\* a hand or without
LateFrame(inputs, budget) ==
    /\ Event(budget)
    /\ inFlight
    /\ inFlight' = FALSE
    /\ \/ \E input \in inputs :
             Result([multiHandLandmarks |-> <<Hand(input.ext, input.tip)>>],
                    [hand |-> TRUE, ext |-> input.ext, tip |-> input.tip])
       \/ Result([multiHandLandmarks |-> <<>>],
                 [hand |-> FALSE, ext |-> [i \in 0..4 |-> FALSE],
                  tip |-> [x |-> 0, y |-> 0]])

LandmarkFrame(inputs, budget) ==
    /\ Event(budget)
    /\ \E input \in inputs :
          Frame([multiHandLandmarks |-> <<Hand(input.ext, input.tip)>>],
                [hand |-> TRUE, ext |-> input.ext, tip |-> input.tip])

\* a landmark set described by where its points lie: the wrist (0) and the
\* knuckles (5, 9, 13, 17) around x = shape.palm, the thumb's base (3) and tip
\* (4) at shape.thumbBase and shape.thumbTip, and the tip of finger i at
\* shape.offset[i] below (positive) or above (negative) its base
ShapedHand(shape) ==
    [k \in 0..20 |->
        IF k = 0 THEN [x |-> shape.palm, y |-> 80]
        ELSE IF k = 3 THEN [x |-> shape.thumbBase, y |-> 65]
        ELSE IF k = 4 THEN [x |-> shape.thumbTip, y |-> 65]
        ELSE IF k \in {1, 2} THEN [x |-> shape.thumbBase, y |-> 70]
        ELSE IF k \in {5, 9, 13, 17} THEN [x |-> shape.palm + ((k - 11) \div 2), y |-> 60]
        ELSE IF k \in {6, 10, 14, 18} THEN [x |-> shape.palm + ((k - 12) \div 2), y |-> 50]
        ELSE IF k \in {8, 12, 16, 20}
        THEN [x |-> shape.palm + ((k - 14) \div 2), y |-> 50 + shape.offset[(k - 4) \div 4]]
        ELSE [x |-> shape.palm + ((k - 13) \div 2), y |-> 50]]

\* the landmark source delivers a hand of one of the given shapes
ShapedFrame(shapes, budget) ==
    /\ Event(budget)
    /\ \E shape \in shapes :
          LET landmarks == ShapedHand(shape)
          IN  Frame([multiHandLandmarks |-> <<landmarks>>],
                    [hand |-> TRUE, ext |-> getExtendedFingers(landmarks),
                     tip |-> landmarks[8]])

NoHandFrame(budget) ==
    /\ Event(budget)
    /\ Frame([multiHandLandmarks |-> <<>>],
             [hand |-> FALSE, ext |-> [i \in 0..4 |-> FALSE], tip |-> [x |-> 0, y |-> 0]])

\* the closures of q whose run at time t is their last, each with what it
\* writes to the group
RECURSIVE lastSteps(_, _)
lastSteps(q, t) ==
    IF q = <<>> THEN <<>>
    ELSE LET w == animate(Head(q), t)
         IN  (IF w.again THEN <<>>
              ELSE <<[animation |-> Head(q), time |-> t,
                      rotation |-> w.rotation, scale |-> w.scale]>>)
             \o lastSteps(Tail(q), t)

\* the browser runs the requestAnimationFrame callbacks that are waiting
AnimationFrame(budget) ==
    /\ Event(budget)
    /\ animations # <<>>
    /\ LET group == runCallbacks(animations, now, [rotation |-> rotation, scale |-> scale])
           again(a) == animate(a, now).again
       IN  /\ rotation' = group.rotation
           /\ scale' = group.scale
           /\ animations' = SelectSeq(animations, again)
           /\ finished' = finished \o lastSteps(animations, now)
    /\ UNCHANGED <<position, lastGestureTime>>
    /\ Record("animation", <<>>, NoCall)
    /\ UNCHANGED <<gestureVars, inputVars, lifeVars, arVars, pageVars, log>>

\* THREE.Clock.getDelta() at time t: 0 for the call that starts the clock,
\* then the time since the previous call, in seconds; here in milliseconds,
\* as onARFrame passes it on (deltaTime * 1000)
getDelta(t) == IF clock.running THEN t - clock.oldTime ELSE 0

\* the spin of a mesh by speed * deltaTime, if the mesh exists
spin(mesh, speed, deltaTime) ==
    IF mesh = noMesh THEN mesh
    ELSE [mesh EXCEPT !.rotationY = @ + speed * deltaTime]

\* mutant of update: the per-frame spin is given to the Earth group as well
updateSpinsGroup(deltaTime) ==
    /\ earthMesh' = spin(earthMesh, rotationSpeed, deltaTime)
    /\ cloudsMesh' = spin(cloudsMesh, cloudsRotationSpeed, deltaTime)
    /\ rotation' = [rotation EXCEPT !.y = @ + rotationSpeed * deltaTime]
    /\ UNCHANGED <<scale, position, animations>>

\* EarthModel.update(deltaTime); isLoaded is true exactly when earthMesh is
\* set: replaceModel clears both, and init() sets isLoaded in the same turn
\* in which the mesh is made
update(deltaTime) ==
    /\ earthMesh' = spin(earthMesh, rotationSpeed, deltaTime)
    /\ cloudsMesh' = spin(cloudsMesh, cloudsRotationSpeed, deltaTime)
    /\ UNCHANGED earthVars

\* the controller object made by createBasicEarthFallback: what a call of one
\* of its methods does to the sphere; its update() turns the sphere by a
\* fixed step whatever deltaTime is
createBasicEarthFallback(call) ==
    CASE call.op = "update" ->
            [basicMesh EXCEPT !.rotation.y = @ + basicRotationStep]
      [] call.op = "zoom" ->
            LET newScale == (basicMesh.scale * call.factor) \div FactorOne
                clampedScale == clamp(newScale, ScaleMin, ScaleMax)
            IN  [basicMesh EXCEPT !.scale = clampedScale]
      [] call.op = "rotate" ->
            [basicMesh EXCEPT !.rotation.y = @ + call.deltaX * RotStep,
                              !.rotation.x = @ + call.deltaY * RotStep]
      [] call.op = "resetOrientation" ->
            [basicMesh EXCEPT !.rotation = [x |-> 0, y |-> 0, z |-> 0],
                              !.scale = DefaultScale]
      [] call.op = "setPosition" ->
            [basicMesh EXCEPT !.position = [x |-> call.x, y |-> call.y, z |-> call.z]]
      [] OTHER -> basicMesh

\* the render loop calls AREarthApp.onARFrame, which calls update() of the
\* Earth model the application has: the EarthModel, or the basic controller
\* kept beside it
ARFrame(budget) ==
    /\ Event(budget)
    /\ LET deltaTime == getDelta(now)
           call == [op |-> "update", deltaTime |-> deltaTime]
       IN  /\ clock' = [running |-> TRUE, oldTime |-> now]
           /\ update(deltaTime)
           /\ basicMesh' = createBasicEarthFallback(call)
           /\ basicCall' = call
           /\ UNCHANGED lastGestureTime
           /\ Record("tick", deltaTime, NoCall)
    /\ UNCHANGED <<gestureVars, inputVars, lifeVars, arVars, config, loads, inFlight,
                   arEarthApp, appInit, log, finished>>

\* the same call made to the EarthModel and to the basic controller
BothCall(calls, budget) ==
    /\ Event(budget)
    /\ \E call \in calls :
          /\ perform(call)
          /\ basicMesh' = createBasicEarthFallback(call)
          /\ basicCall' = call
          /\ UNCHANGED lastGestureTime
          /\ Record("call", call, call)
    /\ UNCHANGED <<gestureVars, inputVars, lifeVars, arVars, meshVars, inFlight,
                   arEarthApp, appInit, log, finished>>

\* direct calls of the EarthModel interface
ZoomCall(factors, budget) ==
    /\ Event(budget)
    /\ \E factor \in factors : zoom(factor)
    /\ UNCHANGED <<rotation, position, animations, lastGestureTime, gestureVars, inputVars,
                   lifeVars, arVars, pageVars, log, events, finished>>

RotateCall(deltas, budget) ==
    /\ Event(budget)
    /\ \E d \in deltas : rotate(d[1], d[2])
    /\ UNCHANGED <<scale, position, animations, lastGestureTime, gestureVars, inputVars,
                   lifeVars, arVars, pageVars, log, events, finished>>

ResetCall(budget) ==
    /\ Event(budget)
    /\ resetOrientation
    /\ UNCHANGED <<position, lastGestureTime, gestureVars, inputVars, lifeVars, arVars, pageVars,
                   log, events, finished>>

SetPositionCall(points, budget) ==
    /\ Event(budget)
    /\ \E p \in points : setPosition(p[1], p[2], p[3])
    /\ UNCHANGED <<scale, rotation, animations, lastGestureTime, gestureVars, inputVars,
                   lifeVars, arVars, pageVars, log, events, finished>>

\* { ...this.config, ...newConfig }
merge(old, new) ==
    [k \in DOMAIN old \cup DOMAIN new |-> IF k \in DOMAIN new THEN new[k] ELSE old[k]]

\* the sequence q without its element i
without(q, i) == SubSeq(q, 1, i - 1) \o SubSeq(q, i + 1, Len(q))

\* EarthModel.replaceModel(newConfig) up to the first await of init(): the
\* group leaves the scene, the configuration is merged, the meshes are
\* dropped, and a new THREE.Group (scale 1, rotation 0, position 0, not in
\* the scene) takes the place of the old one while the new model loads
replaceModel(newConfig) ==
    /\ inScene' = FALSE
    /\ config' = merge(config, newConfig)
    /\ earthMesh' = noMesh
    /\ cloudsMesh' = noMesh
    /\ scale' = DefaultScale
    /\ rotation' = [x |-> 0, y |-> 0, z |-> 0]
    /\ position' = [x |-> 0, y |-> 0, z |-> 0]
    /\ loads' = Append(loads, [useGLTF |-> merge(config, newConfig).useGLTF])
    /\ UNCHANGED animations

\* EarthModel.setupEarthGroup(): the group of the moment is given the
\* configured position and the original scale and added to the scene
setupEarthGroup ==
    /\ position' = config.position
    /\ scale' = OriginalScale
    /\ inScene' = TRUE

\* EarthModel.init() after its await, for the load i: the new meshes are made (a cloud
\* layer only by the procedural Earth with a cloud texture), then
\* setupEarthGroup() and isLoaded = true
initEarthModel(i, clouds) ==
    /\ loads' = without(loads, i)
    /\ earthMesh' = [rotationY |-> 0]
    /\ cloudsMesh' = IF clouds /\ ~loads[i].useGLTF THEN [rotationY |-> 0] ELSE cloudsMesh
    /\ setupEarthGroup
    /\ UNCHANGED <<rotation, animations, config>>

\* the load of init() can end in the turn that started it: it does when no
\* texture path is set (loadTextures asks for nothing), and it can when the
\* loader answers at once or is missing (new THREE.GLTFLoader() throws and
\* createBasicEarth() takes over)
SameTurn(c) == IF ~c.useGLTF /\ c.texturePaths = {} THEN {TRUE} ELSE BOOLEAN

\* the cloud layers a load under configuration c can make
CloudLayers(c) == IF c.useGLTF THEN {FALSE} ELSE BOOLEAN

\* replaceModel(newConfig) when init() has nothing to wait for: the new group
\* is set up and in the scene before the turn ends
replaceModelAtOnce(newConfig, clouds) ==
    /\ inScene' = TRUE
    /\ config' = merge(config, newConfig)
    /\ earthMesh' = [rotationY |-> 0]
    /\ cloudsMesh' = IF clouds THEN [rotationY |-> 0] ELSE noMesh
    /\ scale' = OriginalScale
    /\ rotation' = [x |-> 0, y |-> 0, z |-> 0]
    /\ position' = merge(config, newConfig).position
    /\ UNCHANGED <<loads, animations>>

\* a caller invokes AREarthApp.replaceEarthModel(newModelConfig); the call
\* does nothing while the application has no EarthModel
ReplaceEarthModel(configs, budget) ==
    /\ Event(budget)
    /\ arEarthApp
    /\ appInit.at # "failed"
    /\ \E newConfig \in configs : \E sameTurn \in SameTurn(merge(config, newConfig)) :
          /\ IF sameTurn
             THEN \E clouds \in CloudLayers(merge(config, newConfig)) :
                     replaceModelAtOnce(newConfig, clouds)
             ELSE replaceModel(newConfig)
          /\ UNCHANGED lastGestureTime
          /\ Record("replace", newConfig, NoCall)
    /\ UNCHANGED <<gestureVars, inputVars, isInitialized, cameraStarted, initResult,
                   arVars, clock, basicVars, inFlight, arEarthApp, appInit, log, finished>>

\* a caller invokes one operation of the EarthModel interface
EarthCall(calls, budget) ==
    /\ Event(budget)
    /\ \E call \in calls :
          /\ perform(call)
          /\ UNCHANGED lastGestureTime
          /\ Record("call", call, call)
    /\ UNCHANGED <<gestureVars, inputVars, lifeVars, arVars, pageVars, log, finished>>

(***************************************************************************)
(* AREarthApp: touch, keyboard and anchor callbacks (src/js/main.js) and   *)
(* the AR session flag of ARManager (src/unnamed/part_002).                *)
(***************************************************************************)
\* ARManager.isSessionActive()
isSessionActive == isARActive

\* mutant of onTouchMove: a touch within the debounce window of a gesture is
\* dropped
onTouchMoveDebounced(x, y) ==
    IF ~isSessionActive /\ now - lastGestureTime >= gestureDebounce
    THEN [call |-> [op |-> "rotate", deltaX |-> x - touchStartX,
                    deltaY |-> y - touchStartY],
          touchStartX |-> x, touchStartY |-> y]
    ELSE [call |-> NoCall, touchStartX |-> touchStartX, touchStartY |-> touchStartY]

\* the touchmove listener for a touch at pixel (x, y): the call made on the
\* Earth model and the new touchStartX, touchStartY.  deltaX * 0.01 in units
\* of 1/100 is deltaX.
onTouchMove(x, y) ==
    IF ~isSessionActive
    THEN [call |-> [op |-> "rotate", deltaX |-> x - touchStartX,
                    deltaY |-> y - touchStartY],
          touchStartX |-> x, touchStartY |-> y]
    ELSE [call |-> NoCall, touchStartX |-> touchStartX, touchStartY |-> touchStartY]

\* the touchend listener at time t: the call made on the Earth model and the
\* new lastTouchTime
onTouchEnd(t) ==
    [call |-> IF t - lastTouchTime < DoubleTapTime
              THEN [op |-> "resetOrientation"] ELSE NoCall,
     lastTouchTime |-> t]

\* onKeyDown multiplying the arrow keys' deltas by 0.01 as touchmove does
onKeyDownScaled(code) ==
    CASE code = "KeyR" -> [op |-> "resetOrientation"]
      [] code \in {"Equal", "NumpadAdd"} -> [op |-> "zoom", factor |-> 110]
      [] code \in {"Minus", "NumpadSubtract"} -> [op |-> "zoom", factor |-> 90]
      [] code = "ArrowLeft" -> [op |-> "rotate", deltaX |-> -10, deltaY |-> 0]
      [] code = "ArrowRight" -> [op |-> "rotate", deltaX |-> 10, deltaY |-> 0]
      [] OTHER -> NoCall

\* onKeyDown(event): the call made on the Earth model
onKeyDown(code) ==
    CASE code = "KeyR" -> [op |-> "resetOrientation"]
      [] code \in {"Equal", "NumpadAdd"} -> [op |-> "zoom", factor |-> 110]
      [] code \in {"Minus", "NumpadSubtract"} -> [op |-> "zoom", factor |-> 90]
      [] code = "ArrowLeft" -> [op |-> "rotate", deltaX |-> -1000, deltaY |-> 0]
      [] code = "ArrowRight" -> [op |-> "rotate", deltaX |-> 1000, deltaY |-> 0]
      [] OTHER -> NoCall

TouchStart(points, budget) ==
    /\ Event(budget)
    /\ \E p \in points :
          /\ touchStartX' = p[1]
          /\ touchStartY' = p[2]
          /\ UNCHANGED <<earthVars, lastGestureTime>>
          /\ Record("touchstart", p, NoCall)
    /\ UNCHANGED <<gestureVars, isARActive, lastTouchTime, lifeVars, arVars, pageVars, log, finished>>

TouchMove(points, budget) ==
    /\ Event(budget)
    /\ \E p \in points :
          LET h == onTouchMove(p[1], p[2])
          IN  /\ perform(h.call)
              /\ touchStartX' = h.touchStartX
              /\ touchStartY' = h.touchStartY
              /\ UNCHANGED lastGestureTime
              /\ Record("touchmove", p, h.call)
    /\ UNCHANGED <<gestureVars, isARActive, lastTouchTime, lifeVars, arVars, pageVars, log, finished>>

TouchEnd(budget) ==
    /\ Event(budget)
    /\ LET h == onTouchEnd(now)
       IN  /\ perform(h.call)
           /\ lastTouchTime' = h.lastTouchTime
           /\ UNCHANGED lastGestureTime
           /\ Record("touchend", <<>>, h.call)
    /\ UNCHANGED <<gestureVars, isARActive, touchStartX, touchStartY, lifeVars, arVars, pageVars,
                   log, finished>>

\* mutant of KeyDown: an accepted key records its time as a gesture does
KeyDownMarksTime(codes, budget) ==
    /\ Event(budget)
    /\ \E code \in codes :
          LET call == onKeyDown(code)
          IN  /\ perform(call)
              /\ lastGestureTime' = IF call = NoCall THEN lastGestureTime ELSE now
              /\ Record("keydown", code, call)
    /\ UNCHANGED <<gestureVars, inputVars, lifeVars, arVars, pageVars, log, finished>>

KeyDown(codes, budget) ==
    /\ Event(budget)
    /\ \E code \in codes :
          LET call == onKeyDown(code)
          IN  /\ perform(call)
              /\ UNCHANGED lastGestureTime
              /\ Record("keydown", code, call)
    /\ UNCHANGED <<gestureVars, inputVars, lifeVars, arVars, pageVars, log, finished>>

\* mutant of AnchorUpdate: an anchor update within the debounce window of a
\* gesture is dropped
AnchorUpdateDebounced(points, budget) ==
    /\ Event(budget)
    /\ isARActive
    /\ \E p \in points :
          /\ IF now - lastGestureTime < gestureDebounce
             THEN UNCHANGED position
             ELSE setPosition(p[1], p[2], p[3])
          /\ UNCHANGED <<scale, rotation, animations, lastGestureTime>>
          /\ Record("anchor", p, [op |-> "setPosition", x |-> p[1], y |-> p[2],
                                  z |-> p[3]])
    /\ arManager' = [arManager EXCEPT !.hasAnchor = TRUE]
    /\ UNCHANGED <<gestureVars, inputVars, lifeVars, xr, starts, arLog, pageVars, log,
                   finished>>

\* the select event of the session places the anchor: updateAnchorPosition
\* calls AREarthApp.onAnchorUpdate with the anchor position
AnchorUpdate(points, budget) ==
    /\ Event(budget)
    /\ isARActive
    /\ \E p \in points :
          LET call == IF arManager.onAnchorUpdate
                      THEN [op |-> "setPosition", x |-> p[1], y |-> p[2], z |-> p[3]]
                      ELSE NoCall
          IN  /\ perform(call)
              /\ UNCHANGED lastGestureTime
              /\ Record("anchor", p, call)
    /\ arManager' = [arManager EXCEPT !.hasAnchor = TRUE]
    /\ UNCHANGED <<gestureVars, inputVars, lifeVars, xr, starts, arLog, pageVars, log,
                   finished>>

(***************************************************************************)
(* ARManager: the life of an AR session (src/unnamed/part_002) and         *)
(* AREarthApp.toggleAR (src/js/main.js).  A session is named by a positive *)
(* number.  The browser follows the WebXR Device API: requestSession is    *)
(* rejected while an immersive session is pending or active, and requests  *)
(* made on a session that has ended are rejected.                          *)
(***************************************************************************)
\* this.xrSession = null
NoSession == 0

\* the fields of the manager that the claims about sessions look at
ARSnapshot ==
    [isARActive |-> isARActive, xrSession |-> arManager.xrSession,
     xrRefSpace |-> arManager.xrRefSpace, anchor |-> arManager.anchor,
     anchorSpace |-> arManager.anchorSpace, hasAnchor |-> arManager.hasAnchor]
ARSnapshotAfter ==
    [isARActive |-> isARActive', xrSession |-> arManager'.xrSession,
     xrRefSpace |-> arManager'.xrRefSpace, anchor |-> arManager'.anchor,
     anchorSpace |-> arManager'.anchorSpace, hasAnchor |-> arManager'.hasAnchor]

\* the manager as its constructor and init() leave it
ARConstructed(supported) ==
    /\ arManager = [isARSupported |-> supported, xrSession |-> NoSession,
                    xrRefSpace |-> NoSession, anchor |-> "null",
                    anchorSpace |-> "null", hasAnchor |-> FALSE,
                    onSessionEnd |-> supported, onAnchorUpdate |-> supported]
    /\ xr = [pending |-> FALSE, active |-> NoSession, created |-> 0, listening |-> {}]
    /\ starts = <<>>
    /\ arLog = <<>>
    /\ isARActive = FALSE

\* the manager after a click on the AR button and the three promises of
\* startARSession resolved, with nothing else in between: the session is
\* active with its end listener attached, and without hit testing the
\* fixed anchor is in place
ARStarted(hitTest) ==
    LET entry == [isARActive |-> FALSE, xrSession |-> NoSession,
                  xrRefSpace |-> NoSession, anchor |-> "null",
                  anchorSpace |-> "null", hasAnchor |-> FALSE]
        exit == [isARActive |-> TRUE, xrSession |-> 1, xrRefSpace |-> 1,
                 anchor |-> "null",
                 anchorSpace |-> IF hitTest THEN "null" ELSE "fixed",
                 hasAnchor |-> ~hitTest]
    IN  /\ arManager = [isARSupported |-> TRUE, xrSession |-> 1, xrRefSpace |-> 1,
                        anchor |-> "null", anchorSpace |-> exit.anchorSpace,
                        hasAnchor |-> exit.hasAnchor,
                        onSessionEnd |-> TRUE, onAnchorUpdate |-> TRUE]
        /\ xr = [pending |-> FALSE, active |-> 1, created |-> 1, listening |-> {1}]
        /\ starts = <<>>
        /\ arLog = <<[kind |-> "requestSession", pending |-> FALSE, active |-> NoSession],
                     [kind |-> "return", ret |-> TRUE, at |-> "return",
                      entry |-> entry, exit |-> exit]>>
        /\ isARActive = TRUE

\* a request for a session is under way: a call waits for requestSession
RequestPending == \E i \in 1..Len(starts) : starts[i].pc = "requestSession"

\* the record of startARSession returning ret from the await named at
Returned(ret, at, entry) ==
    arLog' = Append(arLog, [kind |-> "return", ret |-> ret, at |-> at,
                            entry |-> entry, exit |-> ARSnapshotAfter])

\* the calls in flight without call i
Without(i) == [k \in 1..(Len(starts) - 1) |-> IF k < i THEN starts[k] ELSE starts[k + 1]]

\* startARSession() up to its first await: the guard, then the call of
\* navigator.xr.requestSession
startARSession ==
    IF ~arManager.isARSupported \/ isARActive
    THEN /\ UNCHANGED <<isARActive, arManager, xr, starts>>
         /\ Returned(FALSE, "guard", ARSnapshot)
    ELSE LET granted == ~xr.pending /\ xr.active = NoSession
         IN  /\ xr' = [xr EXCEPT !.pending = @ \/ granted]
             /\ starts' = Append(starts, [pc |-> "requestSession", granted |-> granted,
                                          on |-> NoSession, entry |-> ARSnapshot])
             /\ arLog' = Append(arLog, [kind |-> "requestSession",
                                        pending |-> RequestPending,
                                        active |-> xr.active])
             /\ UNCHANGED <<isARActive, arManager>>

\* endARSession(): xrSession.end() is called only while a session is active
endARSession ==
    /\ arLog' = Append(arLog, [kind |-> "endARSession", active |-> isARActive,
                               ended |-> IF isARActive THEN arManager.xrSession
                                         ELSE NoSession,
                               entry |-> ARSnapshot, exit |-> ARSnapshot])
    /\ UNCHANGED <<isARActive, arManager, xr, starts>>

\* the await of call i is settled and the call runs on to its next await or
\* to its return
resume(i, resolved, hitTest) ==
    LET c == starts[i]
    IN  CASE c.pc = "requestSession" /\ resolved ->
               \* line 84: this.xrSession = the new session; line 91
               LET session == xr.created + 1
               IN  /\ c.granted
                   /\ xr' = [xr EXCEPT !.pending = FALSE, !.active = session,
                                       !.created = session]
                   /\ arManager' = [arManager EXCEPT !.xrSession = session]
                   /\ starts' = [starts EXCEPT ![i].pc = "requestReferenceSpace",
                                               ![i].on = session]
                   /\ UNCHANGED <<isARActive, arLog>>
          [] c.pc = "requestSession" /\ ~resolved ->
               /\ xr' = [xr EXCEPT !.pending = IF c.granted THEN FALSE ELSE @]
               /\ starts' = Without(i)
               /\ UNCHANGED <<isARActive, arManager>>
               /\ Returned(FALSE, "requestSession", c.entry)
          [] c.pc = "requestReferenceSpace" /\ resolved ->
               \* line 91: this.xrRefSpace = the space; line 94
               /\ xr.active = c.on
               /\ arManager' = [arManager EXCEPT !.xrRefSpace = c.on]
               /\ starts' = [starts EXCEPT ![i].pc = "setSession",
                                           ![i].on = arManager.xrSession]
               /\ UNCHANGED <<isARActive, xr, arLog>>
          [] c.pc = "setSession" /\ resolved ->
               \* lines 97-106: listeners, isARActive, initializeAnchoring
               /\ c.on # NoSession /\ xr.active = c.on
               /\ arManager.xrSession # NoSession
               /\ xr' = [xr EXCEPT !.listening = @ \cup {arManager.xrSession}]
               /\ isARActive' = TRUE
               /\ arManager' = IF hitTest THEN arManager
                               ELSE [arManager EXCEPT !.hasAnchor = TRUE,
                                                      !.anchorSpace = "fixed"]
               /\ starts' = Without(i)
               /\ Returned(TRUE, "return", c.entry)
          [] OTHER ->
               \* the catch: requestReferenceSpace or setSession was rejected
               /\ ~resolved
               /\ starts' = Without(i)
               /\ UNCHANGED <<isARActive, arManager, xr>>
               /\ Returned(FALSE, c.pc, c.entry)

\* the callbacks of the AR lifecycle leave everything else alone
ARStep(budget) ==
    /\ Event(budget)
    /\ UNCHANGED <<earthVars, lastGestureTime, gestureVars, touchStartX, touchStartY,
                   lastTouchTime, lifeVars, pageVars, log, events, finished>>

\* a click on the AR button: AREarthApp.toggleAR up to its first await
ToggleAR(budget) ==
    /\ ARStep(budget)
    /\ IF ~arManager.isARSupported
       THEN /\ arLog' = Append(arLog, [kind |-> "alert"])
            /\ UNCHANGED <<isARActive, arManager, xr, starts>>
       ELSE IF isARActive THEN endARSession ELSE startARSession

\* startARSession() and endARSession() called on the manager directly
StartCall(budget) == ARStep(budget) /\ startARSession
EndCall(budget) == ARStep(budget) /\ endARSession

\* a promise that a startARSession call awaits is resolved or rejected
Resume(budget) ==
    /\ ARStep(budget)
    /\ \E i \in 1..Len(starts) : \E resolved \in BOOLEAN : \E hitTest \in BOOLEAN :
          resume(i, resolved, hitTest)

\* a session that has no end listener yet ends (the user leaves AR, or the
\* device takes the session away): nothing in the page runs
SessionLost(budget) ==
    /\ ARStep(budget)
    /\ xr.active # NoSession
    /\ xr.active \notin xr.listening
    /\ xr' = [xr EXCEPT !.active = NoSession]
    /\ arLog' = Append(arLog, [kind |-> "lost", session |-> xr.active])
    /\ UNCHANGED <<isARActive, arManager, starts>>

\* ARManager.onARSessionEnd(): the fields it assigns
onARSessionEnd ==
    [arManager EXCEPT !.xrSession = NoSession, !.xrRefSpace = NoSession,
                      !.anchor = "null", !.anchorSpace = "null", !.hasAnchor = FALSE]

\* mutant of SessionEnd: leaving AR puts the Earth back where it was created
SessionEndRecentres(budget) ==
    /\ Event(budget)
    /\ xr.active # NoSession /\ xr.active \in xr.listening
    /\ xr' = [xr EXCEPT !.active = NoSession, !.listening = @ \ {xr.active}]
    /\ isARActive' = FALSE
    /\ arManager' = onARSessionEnd
    /\ arLog' = Append(arLog, [kind |-> "end", session |-> xr.active,
                               notified |-> arManager.onSessionEnd,
                               exit |-> ARSnapshotAfter])
    /\ position' = originalPosition
    /\ UNCHANGED <<scale, rotation, animations, lastGestureTime, gestureVars,
                   touchStartX, touchStartY, lastTouchTime, lifeVars, pageVars, log,
                   events, finished, starts>>

\* mutant of SessionEnd: the handler keeps the reference to the session
SessionEndKeepsSession(budget) ==
    /\ ARStep(budget)
    /\ xr.active # NoSession /\ xr.active \in xr.listening
    /\ xr' = [xr EXCEPT !.active = NoSession, !.listening = @ \ {xr.active}]
    /\ isARActive' = FALSE
    /\ arManager' = [onARSessionEnd EXCEPT !.xrSession = arManager.xrSession]
    /\ arLog' = Append(arLog, [kind |-> "end", session |-> xr.active,
                               notified |-> arManager.onSessionEnd,
                               exit |-> ARSnapshotAfter])
    /\ UNCHANGED starts

\* the end event of a session that startARSession listens to, after
\* xrSession.end() or because the user left AR: ARManager.onARSessionEnd,
\* which calls AREarthApp.onARSessionEnd if that callback is still set
SessionEnd(budget) ==
    /\ ARStep(budget)
    /\ xr.active # NoSession /\ xr.active \in xr.listening
    /\ xr' = [xr EXCEPT !.active = NoSession, !.listening = @ \ {xr.active}]
    /\ isARActive' = FALSE
    /\ arManager' = onARSessionEnd
    /\ arLog' = Append(arLog, [kind |-> "end", session |-> xr.active,
                               notified |-> arManager.onSessionEnd,
                               exit |-> ARSnapshotAfter])
    /\ UNCHANGED starts

\* AREarthApp.dispose(): GestureController.dispose() stops the camera and
\* closes the landmark source, ARManager.dispose() asks the session to end
\* (its end event comes later), EarthModel.dispose() takes the Earth group out
\* of the scene.  No call touches the requestAnimationFrame callbacks.  An
\* image handed to hands.send() before may still be waiting for its result,
\* and the onResults binding stays, so a result that was awaited before the
\* call is still awaited after it.
Dispose(budget) ==
    /\ Event(budget)
    /\ cameraStarted' = FALSE
    /\ isInitialized' = FALSE
    /\ inScene' = FALSE
    /\ UNCHANGED <<earthVars, lastGestureTime>>
    /\ Record("dispose", <<>>, NoCall)
    /\ arManager' = [arManager EXCEPT !.onSessionEnd = FALSE, !.onAnchorUpdate = FALSE]
    /\ arLog' = Append(arLog, [kind |-> "dispose", active |-> isARActive,
                               ended |-> IF isARActive THEN arManager.xrSession
                                         ELSE NoSession])
    /\ \E sent \in BOOLEAN : inFlight' = (inFlight \/ (cameraStarted /\ sent))
    /\ UNCHANGED <<gestureVars, inputVars, initResult, log, finished, xr, starts,
                   meshVars, basicVars, arEarthApp, appInit>>

(***************************************************************************)
(* GestureController.init (src/js/gesture-controller.js).                  *)
(***************************************************************************)
\* what init() meets: Hands defined or not, navigator.mediaDevices with
\* getUserMedia or not, setupCamera resolving or rejecting (no camera
\* granted), setupMediaPipe completing or throwing before camera.start()
Environments ==
    [hands : BOOLEAN, mediaDevices : BOOLEAN, camera : {"ok", "rejected"},
     mediaPipe : {"ok", "throws"}]

\* mutant of init: no catch around the setup
initNoCatch(env) ==
    IF ~env.hands THEN [ret |-> "false", isInitialized |-> isInitialized,
                        cameraStarted |-> cameraStarted]
    ELSE IF ~env.mediaDevices THEN [ret |-> "false", isInitialized |-> isInitialized,
                                    cameraStarted |-> cameraStarted]
    ELSE IF env.camera = "rejected" \/ env.mediaPipe = "throws"
    THEN [ret |-> "threw", isInitialized |-> isInitialized,
          cameraStarted |-> cameraStarted]
    ELSE [ret |-> "true", isInitialized |-> TRUE, cameraStarted |-> TRUE]

\* init(): what it returns ("threw" if an exception leaves it), and the new
\* isInitialized and state of the camera loop
init(env) ==
    IF ~env.hands THEN [ret |-> "false", isInitialized |-> isInitialized,
                        cameraStarted |-> cameraStarted]
    ELSE IF ~env.mediaDevices THEN [ret |-> "false", isInitialized |-> isInitialized,
                                    cameraStarted |-> cameraStarted]
    ELSE IF env.camera = "rejected" \/ env.mediaPipe = "throws"
    THEN [ret |-> "false", isInitialized |-> isInitialized,
          cameraStarted |-> cameraStarted]
    ELSE [ret |-> "true", isInitialized |-> TRUE, cameraStarted |-> TRUE]

\* AREarthApp.initializeModules awaits gestureController.init() once, and
\* AREarthApp.init() goes on to its end when it returns
GestureInit(envs, budget) ==
    /\ Event(budget)
    /\ initResult = "pending"
    /\ appInit.at = "gestureController"
    /\ \E env \in envs :
          LET r == init(env)
          IN  /\ initResult' = r.ret
              /\ isInitialized' = r.isInitialized
              /\ cameraStarted' = r.cameraStarted
              /\ UNCHANGED <<earthVars, lastGestureTime>>
              /\ Record("init", env, [op |-> "init", ret |-> r.ret,
                                      isInitialized |-> r.isInitialized])
    /\ appInit' = [at |-> "done"]
    /\ UNCHANGED <<gestureVars, inputVars, inScene, log, finished, arVars, meshVars,
                   basicVars, inFlight, arEarthApp>>

\* the page with the application object created and the Earth model loaded
\* (with a cloud layer or without), AREarthApp.init() at the given place, the
\* clock not read, no image with MediaPipe. basicMesh is the sphere
\* createBasicEarthFallback would have made instead, kept beside the Earth
\* group to compare the two controllers.
PageAt(clouds, at) ==
    /\ earthMesh = [rotationY |-> 0]
    /\ cloudsMesh = IF clouds THEN [rotationY |-> 0] ELSE noMesh
    /\ clock = [running |-> FALSE, oldTime |-> 0]
    /\ config = DefaultConfig
    /\ loads = <<>>
    /\ basicMesh = [scale |-> DefaultScale, rotation |-> originalRotation,
                    position |-> originalPosition]
    /\ basicCall = NoCall
    /\ inFlight = FALSE
    /\ arEarthApp = TRUE
    /\ appInit = [at |-> at]

\* the page after AREarthApp.init() has returned
PageLoaded(clouds) == PageAt(clouds, "done")

\* what the page meets when it has loaded: window.THREE defined or not,
\* whether setupUI and setupThreeJS run through or one of them throws (the
\* button element is missing, no WebGL context), and the environment of the
\* gesture controller
PageEnvironments == [three : BOOLEAN, setup : {"ok", "throws"}, gestures : Environments]

\* AREarthApp.init() waiting at the await of initializeModules named by at
waiting(at, env) ==
    [appInit |-> [at |-> at, env |-> env], initResult |-> initResult,
     isInitialized |-> isInitialized, cameraStarted |-> cameraStarted]

\* AREarthApp.initializeModules from the await it waited at to the next one
\* that takes a turn, or through setupEventListeners to the end of init():
\* arManager.init() waits for isSessionSupported when navigator.xr is
\* defined, gestureController.init() for the camera when Hands and the camera
\* API are there
initializeModules(from, env, xrDefined) ==
    IF from = "earthModel" /\ xrDefined THEN waiting("arManager", env)
    ELSE IF from # "gestureController" /\ env.gestures.hands /\ env.gestures.mediaDevices
    THEN waiting("gestureController", env)
    ELSE LET r == init(env.gestures)
         IN  [appInit |-> [at |-> "done"], initResult |-> r.ret,
              isInitialized |-> r.isInitialized, cameraStarted |-> r.cameraStarted]

\* whether navigator.xr can be defined: it is when immersive AR is supported
XRDefined == IF arManager.isARSupported THEN {TRUE} ELSE BOOLEAN

\* the DOMContentLoaded listener of main.js: it returns without creating the
\* application when THREE or the camera API is missing; otherwise it creates
\* it and calls init().  When setupUI or setupThreeJS throws, init() catches
\* and ends in handleInitializationError: the application object exists, but
\* no EarthModel, ARManager callback or GestureController is constructed and
\* no listener is set.  Otherwise init() constructs the EarthModel (a new
\* group, its load started) and waits for it at the first await of
\* initializeModules, or goes on in the same turn when the load has nothing
\* to wait for
DOMContentLoaded(envs, budget) ==
    /\ Event(budget)
    /\ ~arEarthApp
    /\ appInit.at = "none"
    /\ initResult = "pending"
    /\ UNCHANGED <<lastGestureTime, animations>>
    /\ \E env \in envs :
          IF ~env.three \/ ~env.gestures.mediaDevices
          THEN /\ initResult' = "not called"
               /\ UNCHANGED <<scale, rotation, position, inScene, earthMesh, cloudsMesh,
                              loads, arEarthApp, appInit, isInitialized, cameraStarted>>
               /\ Record("load", env, NoCall)
          ELSE IF env.setup = "throws"
          THEN /\ arEarthApp' = TRUE
               /\ appInit' = [at |-> "failed"]
               /\ initResult' = "not called"
               /\ UNCHANGED <<scale, rotation, position, inScene, earthMesh, cloudsMesh,
                              loads, isInitialized, cameraStarted>>
               /\ Record("load", env, NoCall)
          ELSE \E sameTurn \in SameTurn(DefaultConfig) :
                  /\ arEarthApp' = TRUE
                  /\ rotation' = [x |-> 0, y |-> 0, z |-> 0]
                  /\ IF sameTurn
                     THEN \E clouds \in BOOLEAN : \E xrDefined \in XRDefined :
                             LET r == initializeModules("earthModel", env, xrDefined)
                             IN  /\ earthMesh' = [rotationY |-> 0]
                                 /\ cloudsMesh' = IF clouds THEN [rotationY |-> 0] ELSE noMesh
                                 /\ loads' = <<>>
                                 /\ position' = DefaultConfig.position
                                 /\ scale' = OriginalScale
                                 /\ inScene' = TRUE
                                 /\ appInit' = r.appInit
                                 /\ initResult' = r.initResult
                                 /\ isInitialized' = r.isInitialized
                                 /\ cameraStarted' = r.cameraStarted
                     ELSE /\ earthMesh' = noMesh
                          /\ cloudsMesh' = noMesh
                          /\ loads' = <<[useGLTF |-> FALSE]>>
                          /\ position' = [x |-> 0, y |-> 0, z |-> 0]
                          /\ scale' = DefaultScale
                          /\ inScene' = FALSE
                          /\ appInit' = [at |-> "earthModel", env |-> env]
                          /\ UNCHANGED <<initResult, isInitialized, cameraStarted>>
                  /\ Record("load", env, NoCall)
    /\ UNCHANGED <<gestureVars, inputVars, log, finished, arVars, clock, config,
                   basicVars, inFlight>>

\* the model or the textures of a waiting init() have arrived; when it is the
\* load AREarthApp.init() waits for, the first, init() goes on in the same
\* turn
ModelLoaded(budget) ==
    /\ Event(budget)
    /\ \E i \in 1..Len(loads) : \E clouds \in CloudLayers(loads[i]) :
          /\ initEarthModel(i, clouds)
          /\ IF appInit.at = "earthModel" /\ i = 1
             THEN \E xrDefined \in XRDefined :
                     LET r == initializeModules("earthModel", appInit.env, xrDefined)
                     IN  /\ appInit' = r.appInit
                         /\ initResult' = r.initResult
                         /\ isInitialized' = r.isInitialized
                         /\ cameraStarted' = r.cameraStarted
             ELSE UNCHANGED <<appInit, initResult, isInitialized, cameraStarted>>
          /\ UNCHANGED lastGestureTime
          /\ Record("loaded", clouds, NoCall)
    /\ UNCHANGED <<gestureVars, inputVars, arVars, clock, basicVars, inFlight,
                   arEarthApp, log, finished>>

\* the promise AREarthApp.init() waits for in arManager.init() or in
\* gestureController.init() has settled
InitResumes(budget) ==
    /\ Event(budget)
    /\ appInit.at \in {"arManager", "gestureController"}
    /\ "env" \in DOMAIN appInit
    /\ LET r == initializeModules(appInit.at, appInit.env, FALSE)
       IN  /\ appInit' = r.appInit
           /\ initResult' = r.initResult
           /\ isInitialized' = r.isInitialized
           /\ cameraStarted' = r.cameraStarted
           /\ UNCHANGED <<earthVars, lastGestureTime>>
           /\ Record("resume", appInit.at, NoCall)
    /\ UNCHANGED <<gestureVars, inputVars, inScene, log, finished, arVars, meshVars,
                   basicVars, inFlight, arEarthApp>>

\* an input event that no listener hears
Unheard(kind, inputs, budget) ==
    /\ Event(budget)
    /\ UNCHANGED <<earthVars, lastGestureTime>>
    /\ \E input \in inputs : Record(kind, input, NoCall)
    /\ UNCHANGED <<gestureVars, inputVars, lifeVars, arVars, pageVars, log, finished>>

\* a key pressed or a finger moved on the page: the listeners exist once
\* AREarthApp.init() has run setupEventListeners
PageKeyDown(codes, budget) ==
    IF appInit.at = "done" THEN KeyDown(codes, budget)
    ELSE Unheard("keydown", codes, budget)

PageTouchMove(points, budget) ==
    IF appInit.at = "done" THEN TouchMove(points, budget)
    ELSE Unheard("touchmove", points, budget)

\* the page before DOMContentLoaded: no application, no Earth group (the
\* transform is that of the group the EarthModel will construct)
InitPage ==
    /\ now = StartTime
    /\ steps = 0
    /\ clockAdvanced = FALSE
    /\ scale = DefaultScale
    /\ rotation = [x |-> 0, y |-> 0, z |-> 0]
    /\ position = [x |-> 0, y |-> 0, z |-> 0]
    /\ animations = <<>>
    /\ lastGestureTime = 0
    /\ lastHandPosition = nullPosition
    /\ currentGesture = null
    /\ gestureStartTime = 0
    /\ gestureQueue = <<>>
    /\ indicator = [active |-> FALSE, text |-> ""]
    /\ swipeThreshold = DefaultSwipeThreshold
    /\ touchStartX = 0
    /\ touchStartY = 0
    /\ lastTouchTime = 0
    /\ inScene = FALSE
    /\ isInitialized = FALSE
    /\ cameraStarted = FALSE
    /\ initResult = "pending"
    /\ log = <<>>
    /\ events = <<>>
    /\ finished = <<>>
    /\ \E supported \in BOOLEAN : ARConstructed(supported)
    /\ earthMesh = noMesh
    /\ cloudsMesh = noMesh
    /\ clock = [running |-> FALSE, oldTime |-> 0]
    /\ config = DefaultConfig
    /\ loads = <<>>
    /\ basicMesh = [scale |-> DefaultScale, rotation |-> originalRotation,
                    position |-> originalPosition]
    /\ basicCall = NoCall
    /\ inFlight = FALSE
    /\ arEarthApp = FALSE
    /\ appInit = [at |-> "none"]

\* the application with its modules constructed and the gesture controller
\* not yet initialised
InitConstructed ==
    /\ now = StartTime
    /\ steps = 0
    /\ clockAdvanced = FALSE
    /\ scale = OriginalScale
    /\ rotation = originalRotation
    /\ position = originalPosition
    /\ animations = <<>>
    /\ lastGestureTime = 0
    /\ lastHandPosition = nullPosition
    /\ currentGesture = null
    /\ gestureStartTime = 0
    /\ gestureQueue = <<>>
    /\ indicator = [active |-> FALSE, text |-> ""]
    /\ swipeThreshold = DefaultSwipeThreshold
    /\ isARActive = FALSE
    /\ touchStartX = 0
    /\ touchStartY = 0
    /\ lastTouchTime = 0
    /\ inScene = TRUE
    /\ isInitialized = FALSE
    /\ cameraStarted = FALSE
    /\ initResult = "pending"
    /\ log = <<>>
    /\ events = <<>>
    /\ finished = <<>>
    /\ ARConstructed(TRUE)
    /\ PageAt(TRUE, "gestureController")

\* the application after AREarthApp.init() has completed with the camera
\* and the landmark source present, before any input
InitCore ==
    /\ now = StartTime
    /\ steps = 0
    /\ clockAdvanced = FALSE
    /\ scale = OriginalScale
    /\ rotation = originalRotation
    /\ position = originalPosition
    /\ animations = <<>>
    /\ lastGestureTime = 0
    /\ lastHandPosition = nullPosition
    /\ currentGesture = null
    /\ gestureStartTime = 0
    /\ gestureQueue = <<>>
    /\ indicator = [active |-> FALSE, text |-> ""]
    /\ swipeThreshold = DefaultSwipeThreshold
    /\ touchStartX = 0
    /\ touchStartY = 0
    /\ lastTouchTime = 0
    /\ inScene = TRUE
    /\ isInitialized = TRUE
    /\ cameraStarted = TRUE
    /\ initResult = "true"
    /\ log = <<>>
    /\ events = <<>>
    /\ finished = <<>>

\* the application after AREarthApp.init() has completed with every
\* capability present and before any input
Init == InitCore /\ ARConstructed(TRUE) /\ PageLoaded(TRUE)

\* the same, or with an AR session started since
InitEither ==
    /\ InitCore
    /\ ARConstructed(TRUE) \/ \E hitTest \in BOOLEAN : ARStarted(hitTest)
    /\ PageLoaded(TRUE)

\* the same with or without support for immersive AR
InitSessions ==
    /\ InitCore
    /\ \E supported \in BOOLEAN : ARConstructed(supported)
    /\ PageLoaded(TRUE)

(***************************************************************************)
(* SpecTransform: the Earth model driven through its interface.            *)
(***************************************************************************)
TransformGaps == {0, 400, 1000}
TransformFactors == {50, 200}
TransformDeltas == {<<500, 9000>>, <<-500, -9000>>}
TransformPoints == {<<100, 0, -100>>}

NextTransform ==
    \/ AdvanceTime(TransformGaps)
    \/ ZoomCall(TransformFactors, MaxTransformSteps)
    \/ RotateCall(TransformDeltas, MaxTransformSteps)
    \/ ResetCall(MaxTransformSteps)
    \/ SetPositionCall(TransformPoints, MaxTransformSteps)
    \/ AnimationFrame(MaxTransformSteps)

SpecTransform == Init /\ [][NextTransform]_vars

\* C1: in every reachable state the uniform scale of the Earth group lies in
\* [0.1, 3.0], whatever zoom, rotate, reset, setPosition calls and animation
\* steps came before
C1_ScaleWithinClamp == ScaleMin <= scale /\ scale <= ScaleMax

\* repeated zoom(2.0) has met the upper clamp while a reset animation runs
C1_Witness == scale = ScaleMax /\ steps >= 3 /\ animations # <<>>

\* C2: in every reachable state rotation.x lies in [-PI/2, PI/2]
C2_RotationXWithinClamp == -HalfPi <= rotation.x /\ rotation.x <= HalfPi

\* rotate calls have met the clamp of rotation.x
C2_Witness == rotation.x = HalfPi /\ steps >= 2

(***************************************************************************)
(* Reading the history of frames.                                          *)
(***************************************************************************)
ExtendedCount(ext) == Cardinality({i \in 0..4 : ext[i]})
IndexOnly(ext) == ExtendedCount(ext) = 1 /\ ext[1]
PeaceSign(ext) == ExtendedCount(ext) = 2 /\ ext[1] /\ ext[2]
OpenPalm(ext) == ExtendedCount(ext) >= 4
TwoOrThree(ext) == ExtendedCount(ext) \in {2, 3}
SwipeEligible(ext) == TwoOrThree(ext) /\ ~PeaceSign(ext)
SwipeLabels == {"swipe_left", "swipe_right"}
Labels == {"zoom_in", "zoom_out", "swipe_left", "swipe_right", "reset"}
Vec(thumb, index, middle, ring, pinky) ==
    [i \in 0..4 |-> CASE i = 0 -> thumb [] i = 1 -> index [] i = 2 -> middle
                      [] i = 3 -> ring [] OTHER -> pinky]
At(x, y) == [x |-> x, y |-> y]

(***************************************************************************)
(* SpecClassify: frames with every extension vector.                       *)
(***************************************************************************)
ClassifyGaps == {50}
ClassifyInputs == [ext : ExtensionVectors, tip : {At(30, 50), At(45, 50)}]

NextClassify ==
    \/ AdvanceTime(ClassifyGaps)
    \/ LandmarkFrame(ClassifyInputs, MaxClassifyFrames)

SpecClassify == Init /\ [][NextClassify]_vars

\* C3: for every extension vector recognizeGesture follows the first-match
\* order: index only -> zoom_in; index and middle only -> zoom_out; four or
\* five fingers -> reset; any other vector with two or three fingers -> what
\* swipe detection returns (a swipe label or none); anything else -> none
C3_FirstMatchOrder ==
    \A i \in 1..Len(log) :
        LET f == log[i]
        IN  f.hand =>
              /\ f.label \in Labels \cup {null}
              /\ IndexOnly(f.ext) => f.label = "zoom_in"
              /\ PeaceSign(f.ext) => f.label = "zoom_out"
              /\ OpenPalm(f.ext) => f.label = "reset"
              /\ SwipeEligible(f.ext) =>
                    /\ f.label \in SwipeLabels \cup {null}
                    /\ f.label = detectSwipe(f.tip, f.before, f.time).ret
              /\ (ExtendedCount(f.ext) = 0 \/ (ExtendedCount(f.ext) = 1 /\ ~f.ext[1])) =>
                    f.label = null

\* an open palm that moved like a swipe was labelled reset, after a
\* three-finger frame
C3_Witness ==
    /\ Len(log) = 2
    /\ ExtendedCount(log[1].ext) = 3
    /\ ExtendedCount(log[2].ext) = 5
    /\ log[2].tip.x - log[1].tip.x > swipeThreshold
    /\ log[2].label = "reset"

(***************************************************************************)
(* SpecSwipe: frames of a moving hand with two or three fingers extended.  *)
(***************************************************************************)
SwipeGaps == {50, 499, 500}
SwipeInputs ==
    {[ext |-> Vec(TRUE, TRUE, FALSE, FALSE, FALSE), tip |-> At(x, 50)] :
        x \in {20, 30, 40, 45, 46}}
    \cup {[ext |-> Vec(TRUE, TRUE, FALSE, FALSE, FALSE), tip |-> At(30, 80)],
          [ext |-> Vec(FALSE, TRUE, TRUE, TRUE, FALSE), tip |-> At(45, 50)],
          [ext |-> Vec(FALSE, TRUE, TRUE, FALSE, FALSE), tip |-> At(45, 50)]}

NextSwipe ==
    \/ AdvanceTime(SwipeGaps)
    \/ LandmarkFrame(SwipeInputs, MaxSwipeFrames)

SpecSwipe == Init /\ [][NextSwipe]_vars

\* the swipe label the claim expects between the samples of frames f0 and f1
\* (null: no swipe)
ExpectedSwipe(f0, f1) ==
    LET deltaX == f1.tip.x - f0.tip.x
        deltaTime == f1.time - f0.time
    IN  IF exceeds(f1.tip.x, f0.tip.x, swipeThreshold) /\ deltaTime < SwipeMaxTime
        THEN (IF deltaX > 0 THEN "swipe_right" ELSE "swipe_left")
        ELSE null

\* frame f1 carries a swipe label iff one is expected, and then that one
SwipeAsExpected(f0, f1) ==
    LET expected == ExpectedSwipe(f0, f1)
    IN  IF expected = null THEN f1.label \notin SwipeLabels ELSE f1.label = expected

\* C4 as stated: between two consecutive frames in which two or three fingers
\* are extended, a swipe label is produced iff |deltaX| > 0.1 and deltaTime <
\* 500 ms, its direction the sign of deltaX
C4_Original ==
    \A i \in 2..Len(log) :
        (log[i - 1].hand /\ log[i].hand
            /\ TwoOrThree(log[i - 1].ext) /\ TwoOrThree(log[i].ext)) =>
        SwipeAsExpected(log[i - 1], log[i])

\* C4 amended: the frames are those whose vector has two or three fingers
\* extended and is not exactly index and middle (that vector is zoom_out and
\* is not sampled); between one such frame and the next such frame, whatever
\* other frames lie in between, a swipe label is produced iff |deltaX| > 0.1
\* and deltaTime < 500 ms, its direction the sign of deltaX
C4_SwipeIff ==
    \A i \in 1..Len(log) : \A j \in 1..Len(log) :
        (/\ j < i
         /\ log[j].hand /\ SwipeEligible(log[j].ext)
         /\ log[i].hand /\ SwipeEligible(log[i].ext)
         /\ \A k \in (j + 1)..(i - 1) : ~(log[k].hand /\ SwipeEligible(log[k].ext))) =>
        SwipeAsExpected(log[j], log[i])

\* a movement from 0.20 to 0.30, whose difference in doubles does not exceed
\* the threshold, produced no swipe and the faster movement after it produced
\* swipe_right
C4_Witness ==
    /\ Len(log) = 3
    /\ \A i \in 1..3 : SwipeEligible(log[i].ext)
    /\ log[2].tip.x - log[1].tip.x = swipeThreshold
    /\ log[2].time - log[1].time < SwipeMaxTime
    /\ log[2].label = null
    /\ log[3].label = "swipe_right"

(***************************************************************************)
(* SpecIncremental: a hand with thumb and index extended moving sideways.  *)
(***************************************************************************)
IncrementalGaps == {50, 100}
IncrementalInputs ==
    {[ext |-> Vec(TRUE, TRUE, FALSE, FALSE, FALSE), tip |-> At(x, 50)] :
        x \in {30, 38, 45, 46}}

NextIncremental ==
    \/ AdvanceTime(IncrementalGaps)
    \/ LandmarkFrame(IncrementalInputs, MaxIncrementalFrames)

SpecIncremental == Init /\ [][NextIncremental]_vars

Sample(f) == [x |-> f.tip.x, y |-> f.tip.y, time |-> f.time]
SwipeCount == Cardinality({i \in 1..Len(log) : log[i].label \in SwipeLabels})
RotateCalls == {i \in 1..Len(log) : log[i].call.op = "rotate"}

\* the first frames are those of the scenario: swipe-eligible frames at
\* t = 0 (x = 0.30), t = 100 ms (x = 0.45) and t = 150 ms (x = 0.46), from the
\* initial state
ScenarioFrames ==
    /\ Len(log) >= 3
    /\ \A i \in 1..3 : log[i].hand /\ SwipeEligible(log[i].ext)
    /\ log[1].tip.x = 30 /\ log[2].tip.x = 45 /\ log[3].tip.x = 46
    /\ log[2].time = log[1].time + 100
    /\ log[3].time = log[1].time + 150

\* the scenario has run and nothing after it
ScenarioSwipe == ScenarioFrames /\ Len(log) = 3

\* frames j..k are swipe-eligible and each of j+1..k moved by at most the
\* threshold since the frame before it
SmallSteps(j, k) ==
    /\ \A i \in j..k : log[i].hand /\ SwipeEligible(log[i].ext)
    /\ \A i \in (j + 1)..k : ~exceeds(log[i].tip.x, log[i - 1].tip.x, swipeThreshold)

\* C5: swipe detection is frame to frame: after every frame that ran
\* detectSwipe the tracked sample is that frame's sample, fired or not; a
\* frame that moved by at most the threshold since the previous frame does
\* not fire, so a run of such frames never fires, whatever the displacement
\* since its first frame; and the scenario 0.30, 0.45, 0.46 at 0, 100, 150 ms
\* gives none, swipe_right, none and exactly one rotate(5, 0) on the Earth
\* model
C5_FrameToFrame ==
    /\ \A i \in 1..Len(log) :
          (log[i].hand /\ SwipeEligible(log[i].ext)) =>
             /\ (i = Len(log) => lastHandPosition = Sample(log[i]))
             /\ (i < Len(log) => log[i + 1].before = Sample(log[i]))
    /\ \A i \in 2..Len(log) :
          (/\ log[i - 1].hand /\ SwipeEligible(log[i - 1].ext)
           /\ log[i].hand /\ SwipeEligible(log[i].ext)
           /\ ~exceeds(log[i].tip.x, log[i - 1].tip.x, swipeThreshold)) =>
          log[i].label = null /\ log[i].call = NoCall
    /\ ScenarioFrames =>
          /\ <<log[1].label, log[2].label, log[3].label>> = <<null, "swipe_right", null>>
          /\ RotateCalls \cap 1..3 = {2}
          /\ log[2].call = [op |-> "rotate", deltaX |-> 500, deltaY |-> 0]
          /\ log[3].command = NoCommand
          /\ log[3].post.earth.rotation = [x |-> 0, y |-> 500 * RotStep, z |-> 0]
    /\ ScenarioSwipe =>
          /\ SwipeCount = 1
          /\ RotateCalls = {2}
          /\ rotation = [x |-> 0, y |-> 500 * RotStep, z |-> 0]

\* the scenario has run, and after it the hand went back from 0.46 over 0.38
\* to 0.30 within 500 ms: two steps of 0.08, 0.16 in all, and no second swipe
C5_Witness ==
    /\ ScenarioFrames
    /\ Len(log) = 5
    /\ log[4].tip.x = 38 /\ log[5].tip.x = 30
    /\ SmallSteps(3, 5)
    /\ exceeds(log[5].tip.x, log[3].tip.x, swipeThreshold)
    /\ log[5].time - log[3].time < SwipeMaxTime
    /\ log[4].label = null /\ log[5].label = null
    /\ SwipeCount = 1
    /\ RotateCalls = {2}

(***************************************************************************)
(* SpecHold: an open palm shown, held and withdrawn.                       *)
(***************************************************************************)
HoldGaps == {100, 400, 501}
HoldInputs ==
    {[ext |-> Vec(TRUE, TRUE, TRUE, TRUE, TRUE), tip |-> At(45, 50)],
     [ext |-> Vec(FALSE, FALSE, FALSE, FALSE, FALSE), tip |-> At(45, 50)],
     [ext |-> Vec(FALSE, TRUE, FALSE, FALSE, FALSE), tip |-> At(45, 50)]}

NextHold ==
    \/ AdvanceTime(HoldGaps)
    \/ LandmarkFrame(HoldInputs, MaxHoldFrames)
    \/ NoHandFrame(MaxHoldFrames)

SpecHold == Init /\ [][NextHold]_vars

\* frames j..i all carry the reset label
ResetRun(j, i) == \A k \in j..i : log[k].hand /\ log[k].label = "reset"

\* C6: a reset command is emitted only in a frame that ends an uninterrupted
\* run of reset-labelled frames lasting strictly more than 500 ms; a palm held
\* 500 ms or less and then withdrawn emits none
C6_ResetNeedsHold ==
    \A i \in 1..Len(log) :
        log[i].command.type = "reset" =>
            \E j \in 1..i : ResetRun(j, i) /\ log[i].time - log[j].time > ResetHoldTime

\* a palm was withdrawn, shown again and held until the reset was emitted
C6_Witness ==
    /\ Len(log) = 4
    /\ log[1].label = "reset"
    /\ ~log[2].hand
    /\ log[4].command.type = "reset"

(***************************************************************************)
(* SpecEmit: every label through processGesture.                           *)
(***************************************************************************)
EmitGaps == {50, 501}
EmitInputs ==
    {[ext |-> Vec(FALSE, TRUE, FALSE, FALSE, FALSE), tip |-> At(45, 50)],
     [ext |-> Vec(FALSE, TRUE, TRUE, FALSE, FALSE), tip |-> At(45, 50)],
     [ext |-> Vec(TRUE, TRUE, TRUE, TRUE, TRUE), tip |-> At(45, 50)],
     [ext |-> Vec(TRUE, TRUE, FALSE, FALSE, FALSE), tip |-> At(30, 50)],
     [ext |-> Vec(TRUE, TRUE, FALSE, FALSE, FALSE), tip |-> At(45, 50)]}

NextEmit ==
    \/ AdvanceTime(EmitGaps)
    \/ LandmarkFrame(EmitInputs, MaxEmitFrames)

SpecEmit == Init /\ [][NextEmit]_vars

\* C7: each label has one fixed command: zoom_in -> zoom 1.02 continuous,
\* zoom_out -> zoom 0.98 continuous, swipe_left -> rotate(-5, 0) discrete,
\* swipe_right -> rotate(5, 0) discrete, reset -> reset discrete or, not yet
\* held, nothing; no label -> nothing
C7_FixedCommands ==
    \A i \in 1..Len(log) :
        LET f == log[i]
        IN  /\ f.label = "zoom_in" =>
                 f.command = [type |-> "zoom", value |-> 102, continuous |-> TRUE]
            /\ f.label = "zoom_out" =>
                 f.command = [type |-> "zoom", value |-> 98, continuous |-> TRUE]
            /\ f.label = "swipe_left" =>
                 f.command = [type |-> "rotate", deltaX |-> -500, deltaY |-> 0,
                              continuous |-> FALSE]
            /\ f.label = "swipe_right" =>
                 f.command = [type |-> "rotate", deltaX |-> 500, deltaY |-> 0,
                              continuous |-> FALSE]
            /\ f.label = "reset" =>
                 f.command \in {[type |-> "reset", continuous |-> FALSE], NoCommand}
            /\ f.label = null => f.command = NoCommand

\* a swipe to the left and a held palm have both emitted their commands
C7_Witness ==
    /\ \E i \in 1..Len(log) : log[i].label = "swipe_left" /\ log[i].command.type = "rotate"
    /\ \E i \in 1..Len(log) : log[i].label = "reset" /\ log[i].command.type = "reset"

(***************************************************************************)
(* SpecDebounce: swipes, a held palm and a raised index finger in quick    *)
(* succession.                                                             *)
(***************************************************************************)
DebounceGaps == {50, 99, 501}
DebounceInputs ==
    {[ext |-> Vec(TRUE, TRUE, TRUE, TRUE, TRUE), tip |-> At(45, 50)],
     [ext |-> Vec(FALSE, TRUE, FALSE, FALSE, FALSE), tip |-> At(45, 50)],
     [ext |-> Vec(TRUE, TRUE, FALSE, FALSE, FALSE), tip |-> At(30, 50)],
     [ext |-> Vec(TRUE, TRUE, FALSE, FALSE, FALSE), tip |-> At(45, 50)]}

NextDebounce ==
    \/ AdvanceTime(DebounceGaps)
    \/ LandmarkFrame(DebounceInputs, MaxDebounceFrames)

SpecDebounce == Init /\ [][NextDebounce]_vars

Discrete(i) == log[i].command.type \in {"rotate", "reset"}
Continuous(i) == log[i].command.type = "zoom"
Applied(i) == log[i].call # NoCall

\* the time of the last discrete command applied before frame i, 0 if none
LastDiscreteApplied(i) ==
    LET earlier == {j \in 1..(i - 1) : Discrete(j) /\ Applied(j)}
    IN  IF earlier = {} THEN 0
        ELSE log[CHOOSE j \in earlier : \A k \in earlier : k <= j].time

\* C8 as stated: of two discrete gesture commands submitted less than 100 ms
\* apart the second is dropped, whether the first was applied or dropped
C8_Original ==
    \A i \in 1..Len(log) : \A k \in (i + 1)..Len(log) :
        (/\ Discrete(i)
         /\ Discrete(k)
         /\ log[k].time - log[i].time < gestureDebounce) => ~Applied(k)

\* C8: a discrete gesture command (rotate of a swipe, reset) is applied
\* exactly when at least 100 ms have passed since the last discrete command
\* that was applied: one submitted less than 100 ms after an applied one is
\* dropped, one that follows a dropped one is measured against the last
\* applied one, so the discrete gesture commands that reach the Earth model
\* are at least 100 ms apart
C8_DiscreteThrottled ==
    /\ \A i \in 1..Len(log) : \A k \in (i + 1)..Len(log) :
          (/\ Discrete(i) /\ Applied(i)
           /\ Discrete(k)
           /\ log[k].time - log[i].time < gestureDebounce) => ~Applied(k)
    /\ \A k \in 1..Len(log) :
          Discrete(k) =>
             (Applied(k) <=> log[k].time - LastDiscreteApplied(k) >= gestureDebounce)

\* a swipe was applied, one 99 ms later dropped, and one that followed the
\* dropped one by 50 ms applied
C8_Witness ==
    \E i \in 1..Len(log) : \E k \in (i + 1)..Len(log) :
        /\ Discrete(i) /\ Applied(i)
        /\ Discrete(k) /\ ~Applied(k)
        /\ log[k].time - log[i].time = gestureDebounce - 1
        /\ \E m \in (k + 1)..Len(log) :
              /\ Discrete(m) /\ Applied(m)
              /\ log[m].time - log[k].time = 50

\* C9 as stated: every continuous command submitted is applied, also within
\* 100 ms of an applied swipe or reset
C9_Original == \A i \in 1..Len(log) : Continuous(i) => Applied(i)

\* C9: a continuous command is applied exactly when at least 100 ms have
\* passed since the last applied discrete command; within the 100 ms it is
\* dropped like any other
C9_ContinuousDebounced ==
    \A i \in 1..Len(log) :
        Continuous(i) =>
            (Applied(i) <=> log[i].time - LastDiscreteApplied(i) >= gestureDebounce)

\* a zoom was dropped right after an applied swipe or reset, a later one
\* applied
C9_Witness ==
    \E i \in 2..Len(log) : \E k \in (i + 1)..Len(log) :
        /\ Discrete(i - 1) /\ Applied(i - 1)
        /\ Continuous(i) /\ ~Applied(i)
        /\ Continuous(k) /\ Applied(k)

(***************************************************************************)
(* SpecZoom: a raised index finger held over camera frames.                *)
(***************************************************************************)
ZoomGaps == {1, 33}
ZoomInputs ==
    {[ext |-> Vec(FALSE, TRUE, FALSE, FALSE, FALSE), tip |-> At(45, 50)],
     [ext |-> Vec(TRUE, TRUE, FALSE, FALSE, FALSE), tip |-> At(30, 50)],
     [ext |-> Vec(TRUE, TRUE, FALSE, FALSE, FALSE), tip |-> At(45, 50)]}

NextZoom ==
    \/ AdvanceTime(ZoomGaps)
    \/ LandmarkFrame(ZoomInputs, MaxZoomFrames)

SpecZoom == Init /\ [][NextZoom]_vars

\* five index-only frames 33 ms apart from the initial state
ScenarioZoom ==
    /\ Len(log) = 5
    /\ \A i \in 1..5 : log[i].hand /\ IndexOnly(log[i].ext)
    /\ \A i \in 2..5 : log[i].time = log[i - 1].time + 33

\* C10: an applied zoom leaves lastGestureTime alone (it stays the time of the
\* last applied discrete command, 0 if none), so a zoom submitted after an
\* applied zoom is applied too, however soon, and five index-only frames at
\* 30 fps from the initial state apply zoom(1.02) five times: the scale ends
\* at 0.5 * 1.02^5 = 0.55204 (to the resolution of the model)
C10_ZoomFullRate ==
    /\ lastGestureTime = LastDiscreteApplied(Len(log) + 1)
    /\ \A i \in 1..(Len(log) - 1) :
          (Continuous(i) /\ Applied(i) /\ Continuous(i + 1)) => Applied(i + 1)
    /\ ScenarioZoom =>
          /\ \A i \in 1..5 : log[i].call = [op |-> "zoom", factor |-> 102]
          /\ scale \in 55203..55205
          /\ lastGestureTime = 0

\* the five frames have run, two of them 33 ms apart both applied
C10_Witness == ScenarioZoom /\ Applied(4) /\ Applied(5)

(***************************************************************************)
(* SpecTouch: touches on the canvas, in and out of an AR session, between  *)
(* swipes of the hand.                                                     *)
(***************************************************************************)
TouchGaps == {50, 300}
TouchStartPoints == {<<100, 30>>}
TouchMovePoints == {<<50, 0>>}
TouchInputs ==
    {[ext |-> Vec(TRUE, TRUE, FALSE, FALSE, FALSE), tip |-> At(x, 50)] : x \in {30, 45}}

NextTouch ==
    \/ AdvanceTime(TouchGaps)
    \/ TouchStart(TouchStartPoints, MaxTouchSteps)
    \/ TouchMove(TouchMovePoints, MaxTouchSteps)
    \/ TouchEnd(MaxTouchSteps)
    \/ ToggleAR(MaxTouchSteps)
    \/ Resume(MaxTouchSteps)
    \/ SessionEnd(MaxTouchSteps)
    \/ LandmarkFrame(TouchInputs, MaxTouchSteps)

SpecTouch == InitEither /\ [][NextTouch]_vars

TouchPointKinds == {"touchstart", "touchmove"}

\* the touch point before event i: the point of the latest touchstart or
\* touchmove, (0, 0) before the first
PreviousTouch(i) ==
    LET earlier == {j \in 1..(i - 1) : events[j].kind \in TouchPointKinds}
    IN  IF earlier = {} THEN <<0, 0>>
        ELSE events[CHOOSE j \in earlier : \A k \in earlier : k <= j].input

\* the touch point recorded before event i: the point of the latest
\* touchstart or of the latest touchmove that came with no session active,
\* (0, 0) before the first
RecordedTouch(i) ==
    LET earlier == {j \in 1..(i - 1) :
                       \/ events[j].kind = "touchstart"
                       \/ events[j].kind = "touchmove" /\ ~events[j].active}
    IN  IF earlier = {} THEN <<0, 0>>
        ELSE events[CHOOSE j \in earlier : \A k \in earlier : k <= j].input

\* the call and its effect for a touchmove event e measured from point
TouchMoveFrom(e, point) ==
    LET dx == e.input[1] - point[1]
        dy == e.input[2] - point[2]
    IN  /\ e.call = [op |-> "rotate", deltaX |-> dx, deltaY |-> dy]
        /\ e.after.rotation =
              [x |-> clamp(e.before.rotation.x + dy * RotStep, -HalfPi, HalfPi),
               y |-> e.before.rotation.y + dx * RotStep,
               z |-> e.before.rotation.z]
        /\ e.after.lastGestureTime = e.before.lastGestureTime

\* C11: while an AR session is active no touchmove and no touchend changes
\* the rotation, scale or position of the Earth model or starts an animation
C11_TouchSuppressedInAR ==
    \A i \in 1..Len(events) :
        (events[i].kind \in {"touchmove", "touchend"} /\ events[i].active) =>
            /\ events[i].call = NoCall
            /\ events[i].after = events[i].before

\* C12 as stated: with no AR session active, a touchmove at (x, y) after the
\* previous touch point (x0, y0) calls rotate((x - x0) * 0.01,
\* (y - y0) * 0.01), whatever lastGestureTime is, and leaves lastGestureTime
\* as it was
C12_Original ==
    \A i \in 1..Len(events) :
        (events[i].kind = "touchmove" /\ ~events[i].active) =>
            TouchMoveFrom(events[i], PreviousTouch(i))

\* C12: with no AR session active, a touchmove at (x, y) calls
\* rotate((x - x0) * 0.01, (y - y0) * 0.01) for the recorded touch point
\* (x0, y0), that of the latest touchstart or touchmove outside a session,
\* whatever lastGestureTime is, and leaves lastGestureTime as it was
C12_TouchMoveRotates ==
    \A i \in 1..Len(events) :
        (events[i].kind = "touchmove" /\ ~events[i].active) =>
            TouchMoveFrom(events[i], RecordedTouch(i))

\* a drag of 50 pixels to the right applied rotate(0.5, 0) less than 100 ms
\* after a swipe was applied
C12_Witness ==
    \E i \in 1..Len(events) :
        /\ events[i].kind = "touchmove" /\ ~events[i].active
        /\ events[i].call = [op |-> "rotate", deltaX |-> 50, deltaY |-> 0]
        /\ events[i].time - events[i].before.lastGestureTime < gestureDebounce

(***************************************************************************)
(* SpecKeys: key presses in and out of an AR session, between swipes.      *)
(***************************************************************************)
KeyGaps == {50}
KeyCodes == {"KeyR", "Equal", "NumpadAdd", "Minus", "NumpadSubtract",
             "ArrowLeft", "ArrowRight", "KeyA"}

NextKeys ==
    \/ AdvanceTime(KeyGaps)
    \/ KeyDown(KeyCodes, MaxKeySteps)
    \/ ToggleAR(MaxKeySteps)
    \/ Resume(MaxKeySteps)
    \/ SessionEnd(MaxKeySteps)
    \/ LandmarkFrame(TouchInputs, MaxKeySteps)

SpecKeys == InitEither /\ [][NextKeys]_vars

\* the call the table of keys gives for a code
KeyTable(code) ==
    IF code = "KeyR" THEN [op |-> "resetOrientation"]
    ELSE IF code = "Equal" \/ code = "NumpadAdd" THEN [op |-> "zoom", factor |-> 110]
    ELSE IF code = "Minus" \/ code = "NumpadSubtract" THEN [op |-> "zoom", factor |-> 90]
    ELSE IF code = "ArrowLeft" THEN [op |-> "rotate", deltaX |-> -1000, deltaY |-> 0]
    ELSE IF code = "ArrowRight" THEN [op |-> "rotate", deltaX |-> 1000, deltaY |-> 0]
    ELSE NoCall

\* the state the call leaves, from the state before it
KeyEffect(call, before, after) ==
    CASE call.op = "zoom" ->
            /\ after.scale = clamp((before.scale * call.factor) \div FactorOne,
                                   ScaleMin, ScaleMax)
            /\ after.rotation = before.rotation
            /\ after.animations = before.animations
      [] call.op = "rotate" ->
            /\ after.rotation = [before.rotation EXCEPT !.y = @ + call.deltaX * RotStep]
            /\ after.scale = before.scale
            /\ after.animations = before.animations
      [] call.op = "resetOrientation" ->
            Len(after.animations) = Len(before.animations) + 1
      [] OTHER -> after = before

\* C13: every keydown of a listed code makes its call on the Earth model,
\* whatever lastGestureTime is and with or without an AR session, and leaves
\* lastGestureTime as it was; so gesture commands are accepted and dropped as
\* if no key had been pressed
C13_KeysUnthrottled ==
    /\ \A i \in 1..Len(events) :
          events[i].kind = "keydown" =>
             /\ events[i].call = KeyTable(events[i].input)
             /\ KeyEffect(events[i].call, events[i].before, events[i].after)
             /\ events[i].after.lastGestureTime = events[i].before.lastGestureTime
    /\ \A i \in 1..Len(log) :
          log[i].command # NoCommand =>
             (Applied(i) <=> log[i].time - LastDiscreteApplied(i) >= gestureDebounce)

\* ArrowRight was applied in an AR session less than 100 ms after a swipe
C13_Witness ==
    \E i \in 1..Len(events) :
        /\ events[i].kind = "keydown" /\ events[i].active
        /\ events[i].input = "ArrowRight"
        /\ events[i].after.rotation.y = events[i].before.rotation.y + 10000
        /\ events[i].before.lastGestureTime > 0
        /\ events[i].time - events[i].before.lastGestureTime < gestureDebounce

(***************************************************************************)
(* SpecReset: resets, zooms and rotations with the browser delivering      *)
(* animation frames for as long as an animation waits for one.             *)
(***************************************************************************)
ResetGaps == {250, 1000}
ResetFactors == {200}
ResetDeltas == {<<500, 9000>>}

\* frames enough for the last animation started to run its 1000 ms at the
\* shortest gap
AnimationBudget == MaxResetCommands + 4

NextReset ==
    \/ AdvanceTime(ResetGaps)
    \/ ResetCall(MaxResetCommands)
    \/ ZoomCall(ResetFactors, MaxResetCommands)
    \/ RotateCall(ResetDeltas, MaxResetCommands)
    \/ AnimationFrame(AnimationBudget)

SpecReset ==
    /\ Init
    /\ [][NextReset]_vars
    /\ WF_vars(AdvanceTime(ResetGaps))
    /\ WF_vars(AnimationFrame(AnimationBudget))

\* every last step of an animation came 1000 ms or more after its start and
\* wrote the original rotation and scale, and no animation that made its last
\* step waits for another frame
LastStepsAtOriginal ==
    /\ \A i \in 1..Len(finished) :
          /\ finished[i].time - finished[i].animation.startTime >= AnimDuration
          /\ finished[i].rotation = originalRotation
          /\ finished[i].scale = OriginalScale
    /\ \A k \in 1..Len(animations) : \A i \in 1..Len(finished) :
          animations[k] # finished[i].animation

\* C14: a reset starts an animation without moving the Earth model in that
\* step; while frames keep coming every animation makes a last step, 1000 ms
\* or more after its start, which writes the original rotation (0, 0, 0) and
\* scale 0.5 whatever was applied since the reset; after it the animation
\* waits for no further frame
C14_ResetAnimationCompletes ==
    /\ []LastStepsAtOriginal
    /\ [][Len(animations') > Len(animations) =>
            (rotation' = rotation /\ scale' = scale)]_vars
    /\ (animations # <<>>) ~> (animations = <<>>)

\* a reset from a turned, enlarged Earth has made its last step, later than
\* 1000 ms after its start
C14_Witness ==
    /\ animations = <<>>
    /\ \E i \in 1..Len(finished) :
          /\ finished[i].animation.startRotation # originalRotation
          /\ finished[i].animation.startScale # OriginalScale
          /\ finished[i].time - finished[i].animation.startTime > AnimDuration

(***************************************************************************)
(* SpecDispose: the application torn down while resets are in flight.      *)
(***************************************************************************)
DisposeGaps == {250, 1000}

NextDispose ==
    \/ AdvanceTime(DisposeGaps)
    \/ ResetCall(MaxDisposeSteps)
    \/ RotateCall(ResetDeltas, MaxDisposeSteps)
    \/ AnimationFrame(MaxDisposeSteps)
    \/ Dispose(MaxDisposeSteps)

SpecDispose == Init /\ [][NextDispose]_vars

\* C15: after dispose() has run, no step of a reset animation runs any more
\* and none changes the rotation or scale of the Earth group
C15_DisposeStopsAnimation ==
    \A i \in 1..Len(events) : \A j \in (i + 1)..Len(events) :
        events[i].kind = "dispose" => events[j].kind # "animation"

(***************************************************************************)
(* Frames without a hand (checked under SpecHold).                         *)
(***************************************************************************)
\* C16: a frame with no hand sets currentGesture to none, deactivates the
\* gesture indicator, emits no command and leaves the Earth model (rotation,
\* scale, position, animations) and lastGestureTime as they were
C16_NoHandFrame ==
    \A i \in 1..Len(log) :
        ~log[i].hand =>
            /\ log[i].post.currentGesture = null
            /\ ~log[i].post.indicator.active
            /\ log[i].command = NoCommand
            /\ log[i].call = NoCall
            /\ log[i].post.earth = log[i].pre.earth

\* the hand was withdrawn while the indicator was active, after a reset had
\* been applied
C16_Witness ==
    \E i \in 1..Len(log) :
        /\ ~log[i].hand
        /\ log[i].pre.indicator.active
        /\ log[i].pre.currentGesture = "reset"
        /\ log[i].pre.earth.lastGestureTime > 0

\* C19: after a frame with no hand the gesture state is empty: the current
\* gesture is none and gestureQueue, the smoothing history, holds no entries
C19_NoHandEmptiesState ==
    \A i \in 1..Len(log) :
        ~log[i].hand =>
            /\ log[i].post.currentGesture = null
            /\ log[i].post.gestureQueue = <<>>

\* C20 as stated: whenever the label of a frame (none for a frame with no
\* hand) differs from the current gesture, the current gesture becomes the
\* label and gestureStartTime becomes the time of the frame
C20_Original ==
    \A i \in 1..Len(log) :
        log[i].label # log[i].pre.currentGesture =>
            /\ log[i].post.currentGesture = log[i].label
            /\ log[i].post.gestureStartTime = log[i].time

\* C20: in a frame with a hand whose label differs from the current gesture,
\* also when the label is none, the current gesture becomes the label and
\* gestureStartTime the time of the frame; a frame with no hand sets the
\* current gesture to none and leaves gestureStartTime as it was
C20_TransitionStamps ==
    \A i \in 1..Len(log) :
        /\ (log[i].hand /\ log[i].label # log[i].pre.currentGesture) =>
              /\ log[i].post.currentGesture = log[i].label
              /\ log[i].post.gestureStartTime = log[i].time
        /\ ~log[i].hand =>
              /\ log[i].post.currentGesture = null
              /\ log[i].post.gestureStartTime = log[i].pre.gestureStartTime

\* a closed hand ended a gesture with a stamp, a withdrawn hand ended one
\* without
C20_Witness ==
    /\ \E i \in 1..Len(log) :
          /\ log[i].hand /\ log[i].label = null
          /\ log[i].pre.currentGesture # null
          /\ log[i].post.gestureStartTime = log[i].time
    /\ \E i \in 1..Len(log) :
          /\ ~log[i].hand
          /\ log[i].pre.currentGesture # null
          /\ log[i].post.gestureStartTime < log[i].time

(***************************************************************************)
(* SpecStartup: the gesture controller initialised in every environment,   *)
(* frames after it where the camera loop runs.                             *)
(***************************************************************************)
StartupGaps == {33, 50}

NextStartup ==
    \/ AdvanceTime(StartupGaps)
    \/ GestureInit(Environments, MaxStartupSteps)
    \/ LandmarkFrame(ZoomInputs, MaxStartupSteps)
    \/ NoHandFrame(MaxStartupSteps)
    \/ Dispose(MaxStartupSteps)

SpecStartup == InitConstructed /\ [][NextStartup]_vars

InitEvents == {i \in 1..Len(events) : events[i].kind = "init"}
CapabilityMissing(env) == ~env.hands \/ ~env.mediaDevices

\* dispose() has been called after event i
DisposedAfter(i) == \E k \in (i + 1)..Len(events) : events[k].kind = "dispose"

\* C17 as stated: init() never throws, and once it has returned isInitialized
\* is true if and only if it returned true
C17_Original ==
    /\ initResult # "threw"
    /\ InitEvents # {} => (isInitialized <=> initResult = "true")

\* C17: init() never throws; it returns false when Hands is not loaded, when
\* the camera API is missing, and when the camera or MediaPipe setup fails;
\* on return isInitialized is true exactly when init returned true, and it
\* stays so until dispose() sets it to false; after a false for a missing
\* capability no frame ever delivers a command
C17_InitReportsFlag ==
    /\ initResult # "threw"
    /\ isInitialized => \E i \in InitEvents : events[i].call.ret = "true"
    /\ \A i \in InitEvents :
          ~DisposedAfter(i) => (isInitialized <=> events[i].call.ret = "true")
    /\ \A i \in InitEvents :
          LET env == events[i].input
              r == events[i].call
          IN  /\ r.ret \in {"true", "false"}
              /\ (CapabilityMissing(env) \/ env.camera = "rejected"
                    \/ env.mediaPipe = "throws") => r.ret = "false"
              /\ r.isInitialized <=> r.ret = "true"
              /\ (r.ret = "false" /\ CapabilityMissing(env)) =>
                    \A k \in 1..Len(log) : log[k].command = NoCommand

\* init returned false because the camera was refused, and the clock went on
C17_Witness ==
    /\ \E i \in InitEvents :
          /\ events[i].input.hands /\ events[i].input.mediaDevices
          /\ events[i].input.camera = "rejected"
          /\ events[i].call.ret = "false"
    /\ ~isInitialized
    /\ now > StartTime + 50

(***************************************************************************)
(* SpecAnchor: anchors placed in an AR session, between swipes.            *)
(***************************************************************************)
AnchorGaps == {50}
AnchorPoints == {<<100, 0, -100>>, <<0, 50, -200>>}

NextAnchor ==
    \/ AdvanceTime(AnchorGaps)
    \/ ToggleAR(MaxAnchorSteps)
    \/ Resume(MaxAnchorSteps)
    \/ SessionEnd(MaxAnchorSteps)
    \/ AnchorUpdate(AnchorPoints, MaxAnchorSteps)
    \/ LandmarkFrame(TouchInputs, MaxAnchorSteps)
    \/ KeyDown({"Equal", "KeyR"}, MaxAnchorSteps)

SpecAnchor == InitEither /\ [][NextAnchor]_vars

\* C18: an anchor update sets the position of the Earth model to the anchor
\* position, whatever lastGestureTime is, and leaves rotation, scale, the
\* animations and lastGestureTime as they were
C18_AnchorSetsPosition ==
    \A i \in 1..Len(events) :
        LET e == events[i]
        IN  e.kind = "anchor" =>
               /\ e.after.position = [x |-> e.input[1], y |-> e.input[2], z |-> e.input[3]]
               /\ e.after.rotation = e.before.rotation
               /\ e.after.scale = e.before.scale
               /\ e.after.animations = e.before.animations
               /\ e.after.lastGestureTime = e.before.lastGestureTime

\* an anchor moved the Earth model less than 100 ms after a swipe was applied
C18_Witness ==
    \E i \in 1..Len(events) :
        /\ events[i].kind = "anchor"
        /\ events[i].after.position # events[i].before.position
        /\ events[i].before.rotation # originalRotation
        /\ events[i].time - events[i].before.lastGestureTime < gestureDebounce

(***************************************************************************)
(* The rolling history of gestures (gestureQueue)                          *)
(***************************************************************************)
\* the entry processGesture pushes in frame i
Pushed(i) == [gesture |-> log[i].label, time |-> log[i].time]

\* the entries of q that frame i's filter keeps
Recent(q, i) ==
    LET keep(g) == log[i].time - g.time < QueueWindow
    IN  SelectSeq(q, keep)

\* the queue after frame i holds the frame's own entry last and nothing that
\* is 1000 ms old or older
FreshQueue(i) ==
    LET q == log[i].post.gestureQueue
    IN  /\ q # <<>>
        /\ q[Len(q)] = Pushed(i)
        /\ \A k \in 1..Len(q) : log[i].time - q[k].time < QueueWindow

\* the statement of C21 as written: every frame with a hand, whatever its
\* label, leaves the queue fresh
C21_Original ==
    \A i \in 1..Len(log) : log[i].hand => FreshQueue(i)

\* C21: a frame whose label is not none appends (label, now) to the history
\* and then drops every entry with now - time >= 1000 ms, so that the history
\* ends with the frame's entry and holds only entries younger than 1000 ms;
\* a frame whose label is none, like a frame without a hand, leaves the
\* history as it was, old entries included
C21_HistoryOnLabel ==
    \A i \in 1..Len(log) :
        IF log[i].hand /\ log[i].label # null
        THEN /\ log[i].post.gestureQueue
                    = Recent(log[i].pre.gestureQueue, i) \o <<Pushed(i)>>
             /\ FreshQueue(i)
        ELSE log[i].post.gestureQueue = log[i].pre.gestureQueue

\* a labelled frame dropped an entry that had become 1000 ms old, and a later
\* frame with a hand and no label left an entry of that age in the history
C21_Witness ==
    /\ \E i \in 1..Len(log) :
          /\ log[i].hand /\ log[i].label # null
          /\ Len(log[i].post.gestureQueue) <= Len(log[i].pre.gestureQueue)
    /\ \E i \in 1..Len(log) :
          /\ log[i].hand /\ log[i].label = null
          /\ \E k \in 1..Len(log[i].post.gestureQueue) :
                log[i].time - log[i].post.gestureQueue[k].time >= QueueWindow

(***************************************************************************)
(* Commands per landmark callback                                          *)
(***************************************************************************)
\* the call on the Earth model that the arbiter makes for a command it accepts
CallOf(command) ==
    CASE command.type = "zoom" -> [op |-> "zoom", factor |-> command.value]
      [] command.type = "rotate" ->
            [op |-> "rotate", deltaX |-> command.deltaX, deltaY |-> command.deltaY]
      [] command.type = "reset" -> [op |-> "resetOrientation"]
      [] OTHER -> NoCall

\* frame i handed nothing to the arbiter: no call was made, and the Earth
\* model and lastGestureTime are as before the frame
Silent(i) ==
    /\ log[i].command = NoCommand
    /\ log[i].call = NoCall
    /\ log[i].post.earth = log[i].pre.earth

\* how long the label of frame i has been held at frame i
HeldFor(i) == log[i].time - log[i].post.gestureStartTime

\* C22: a landmark callback hands at most one command to the arbiter: a frame
\* whose label is none hands it nothing, a labelled frame hands it the one
\* command of its label or nothing (so at most one call reaches the Earth
\* model), and a reset label held for 500 ms or less hands it nothing
C22_AtMostOneCommand ==
    \A i \in 1..Len(log) :
        /\ log[i].label = null => Silent(i)
        /\ log[i].label # null =>
              /\ log[i].command \in {NoCommand,
                                     gestureCommand(log[i].label, ResetHoldTime + 1, 0)}
              /\ log[i].call \in {NoCall, CallOf(log[i].command)}
        /\ log[i].label = "reset" /\ HeldFor(i) <= ResetHoldTime => Silent(i)

\* a palm that had been held for a while, but not longer than 500 ms, handed
\* over nothing, a frame with a hand and no label handed over nothing, and a
\* labelled frame handed over its command, which reached the Earth model
C22_Witness ==
    /\ \E i \in 1..Len(log) :
          /\ log[i].label = "reset" /\ Silent(i)
          /\ HeldFor(i) > 0 /\ HeldFor(i) <= ResetHoldTime
    /\ \E i \in 1..Len(log) : log[i].hand /\ log[i].label = null
    /\ \E i \in 1..Len(log) :
          log[i].label # null /\ log[i].call # NoCall

(***************************************************************************)
(* The swipe tracking state (lastHandPosition)                             *)
(***************************************************************************)
\* the sample detectSwipe stores in frame i
Stored(i) == [x |-> log[i].tip.x, y |-> log[i].tip.y, time |-> log[i].time]

\* the statement of C23 as written: every frame with a hand stores its sample
C23_Original ==
    \A i \in 1..Len(log) : log[i].hand => log[i].after = Stored(i)

\* C23: the last fingertip position and time are overwritten with the
\* frame's own in exactly the frames that reach swipe detection, those with a
\* hand whose vector has two or three fingers extended and is not index and
\* middle alone, whether a swipe fires or not; frames classified zoom_in,
\* zoom_out or reset, and frames with fewer than two fingers extended, leave
\* them as they were
C23_TrackedOnSwipeFrames ==
    \A i \in 1..Len(log) :
        IF log[i].hand /\ SwipeEligible(log[i].ext)
        THEN log[i].after = Stored(i)
        ELSE log[i].after = log[i].before

\* a frame with two or three fingers stored its sample, and the next frame, a
\* hand labelled zoom_in, zoom_out or reset or not labelled at all for lack
\* of fingers, left that older sample in place
C23_Witness ==
    /\ Len(log) = 2
    /\ log[1].hand /\ SwipeEligible(log[1].ext) /\ log[1].after = Stored(1)
    /\ log[2].hand /\ ~SwipeEligible(log[2].ext)
    /\ log[2].tip # log[1].tip
    /\ log[2].after = Stored(1)
    /\ lastHandPosition = Stored(1)

(***************************************************************************)
(* SpecReenter: a hand with thumb and index extended that leaves the       *)
(* camera's view and comes back.                                           *)
(***************************************************************************)
MaxReenterFrames == 4
ReenterGaps == {99, 400, 401}
ReenterInputs ==
    {[ext |-> Vec(TRUE, TRUE, FALSE, FALSE, FALSE), tip |-> At(x, 50)] : x \in {30, 45}}

NextReenter ==
    \/ AdvanceTime(ReenterGaps)
    \/ LandmarkFrame(ReenterInputs, MaxReenterFrames)
    \/ NoHandFrame(MaxReenterFrames)

SpecReenter == Init /\ [][NextReenter]_vars

\* frame i is the first frame that reaches swipe detection after frame j did,
\* and the hand was lost in between
Reentry(j, i) ==
    /\ j < i
    /\ log[j].hand /\ SwipeEligible(log[j].ext)
    /\ log[i].hand /\ SwipeEligible(log[i].ext)
    /\ \A k \in (j + 1)..(i - 1) : ~(log[k].hand /\ SwipeEligible(log[k].ext))
    /\ \E k \in (j + 1)..(i - 1) : ~log[k].hand

\* C24: a frame without a hand leaves lastHandPosition as it was, and once
\* set it is never unset; the first frame that reaches swipe detection after
\* the hand comes back measures from the sample taken before the loss, and
\* it is labelled a swipe iff that stale deltaX exceeds the threshold and less
\* than 500 ms have passed since the stale sample
C24_StaleSwipe ==
    /\ \A i \in 1..Len(log) :
          /\ ~log[i].hand => log[i].after = log[i].before
          /\ log[i].before # nullPosition => log[i].after # nullPosition
    /\ \A i \in 1..Len(log) : \A j \in 1..Len(log) :
          Reentry(j, i) =>
             /\ log[i].before = Sample(log[j])
             /\ SwipeAsExpected(log[j], log[i])

\* the hand was at x = 0.30, was lost, and came back at x = 0.45 less than
\* 500 ms after the old sample: the frame of its return is labelled swipe_right
C24_Witness ==
    /\ Len(log) >= 3
    /\ \E i \in 2..Len(log) :
          /\ Reentry(1, i)
          /\ log[i].tip.x - log[1].tip.x > swipeThreshold
          /\ log[i].label = "swipe_right"
          /\ log[i].call.op = "rotate"

(***************************************************************************)
(* SpecFingers: hands of many shapes, the thumb on either side of the palm *)
(***************************************************************************)
MaxFingerFrames == 2
FingerGaps == {33}

\* one finger's tip above, level with or below its base, the other three
\* below if it is above and above otherwise
FingerOffsets ==
    {[i \in 1..4 |-> IF i = k THEN own ELSE (IF own < 0 THEN 10 ELSE -10)] :
        k \in 1..4, own \in {-10, 0, 10}}

\* the thumb's base at x = 0.50; the palm to its left with the tip pointing
\* away (0.60), level (0.50) or tucked in (0.45), or the palm to its right
\* with the tip pointing away (0.40) or tucked in (0.55)
ThumbShapes ==
    {[palm |-> 40, thumbBase |-> 50, thumbTip |-> 60],
     [palm |-> 40, thumbBase |-> 50, thumbTip |-> 50],
     [palm |-> 40, thumbBase |-> 50, thumbTip |-> 45],
     [palm |-> 60, thumbBase |-> 50, thumbTip |-> 40],
     [palm |-> 60, thumbBase |-> 50, thumbTip |-> 55]}

HandShapes ==
    {[palm |-> t.palm, thumbBase |-> t.thumbBase, thumbTip |-> t.thumbTip,
      offset |-> o] : t \in ThumbShapes, o \in FingerOffsets}

NextFingers ==
    \/ AdvanceTime(FingerGaps)
    \/ ShapedFrame(HandShapes, MaxFingerFrames)

SpecFingers == Init /\ [][NextFingers]_vars

\* the x-coordinate of the middle of the palm: the mean of the wrist and the
\* knuckles of the index and the little finger
PalmCentreX(landmarks) == (landmarks[0].x + landmarks[5].x + landmarks[17].x) \div 3

\* the thumb's tip is further from the middle of the palm than its base is
ThumbAway(landmarks) ==
    abs(landmarks[4].x - PalmCentreX(landmarks)) > abs(landmarks[3].x - PalmCentreX(landmarks))

\* C25: in every frame with a hand the thumb is classified as extended iff
\* its tip's x lies further from the middle of the palm than its base's x,
\* wherever the hand is and whichever way the thumb points
C25_ThumbAwayFromPalm ==
    \A i \in 1..Len(log) :
        log[i].hand => (log[i].extended[0] <=> ThumbAway(log[i].landmarks[1]))

\* C26: in every frame with a hand each of the index, middle, ring and little
\* fingers is classified as extended iff the y of its tip (landmarks 8, 12,
\* 16, 20) is strictly less than the y of its base (landmarks 6, 10, 14, 18),
\* so a tip level with its base is not extended; and two frames with the same
\* landmark set have the same extension vector, whatever happened in between
C26_FingersByTipAboveBase ==
    /\ \A i \in 1..Len(log) :
          log[i].hand =>
             \A f \in 1..4 :
                log[i].extended[f] <=>
                   log[i].landmarks[1][4 + 4 * f].y < log[i].landmarks[1][2 + 4 * f].y
    /\ \A i \in 1..Len(log) : \A j \in 1..Len(log) :
          log[i].landmarks = log[j].landmarks => log[i].extended = log[j].extended

\* the same hand was seen twice, its index tip level with its base and so
\* not extended, its other fingers extended; the first frame, labelled as a
\* swipe candidate, had stored a fingertip sample before the second
C26_Witness ==
    /\ Len(log) = 2
    /\ log[1].landmarks = log[2].landmarks
    /\ log[1].landmarks[1][8].y = log[1].landmarks[1][6].y
    /\ ~log[2].extended[1]
    /\ \A f \in 2..4 : log[2].extended[f]
    /\ log[2].before # log[1].before

(***************************************************************************)
(* SpecUnits: arrow keys, touch drags and swipes, each ending in rotate    *)
(***************************************************************************)
MaxUnitSteps == 4
UnitGaps == {120}
ArrowCodes == {"ArrowLeft", "ArrowRight"}

NextUnits ==
    \/ AdvanceTime(UnitGaps)
    \/ TouchStart(TouchStartPoints, MaxUnitSteps)
    \/ TouchMove(TouchMovePoints, MaxUnitSteps)
    \/ KeyDown(ArrowCodes, MaxUnitSteps)
    \/ LandmarkFrame(TouchInputs, MaxUnitSteps)

SpecUnits == Init /\ [][NextUnits]_vars

\* the argument of rotate for a raw delta d passed as it is, and for d
\* multiplied by 0.01 first (arguments count in hundredths)
Direct(d) == d * 100
TimesHundredth(d) == d

\* the raw delta of an arrow key
ArrowDelta(code) == IF code = "ArrowLeft" THEN -10 ELSE 10

\* the raw delta of a swipe label
SwipeDelta(label) == IF label = "swipe_left" THEN -5 ELSE 5

\* the call rotate(deltaX, 0) adds deltaX * 0.01 to rotation.y
AddsToY(call, before, after) ==
    /\ call.op = "rotate"
    /\ after.rotation.y = before.rotation.y + call.deltaX * RotStep

\* every swipe that is applied calls rotate with plus or minus 5, unscaled
SwipesDirect ==
    \A i \in 1..Len(log) :
        (log[i].label \in SwipeLabels /\ log[i].call # NoCall) =>
            /\ log[i].call.deltaX = Direct(SwipeDelta(log[i].label))
            /\ AddsToY(log[i].call, log[i].pre.earth, log[i].post.earth)

\* every touchmove outside a session calls rotate with the pixel delta
\* times 0.01
TouchScaled ==
    \A i \in 1..Len(events) :
        (events[i].kind = "touchmove" /\ events[i].call # NoCall) =>
            /\ events[i].call.deltaX
                  = TimesHundredth(events[i].input[1] - RecordedTouch(i)[1])
            /\ AddsToY(events[i].call, events[i].before, events[i].after)

\* the statement of C27 as written: arrow keys, like touch drags, reach
\* rotate with their delta times 0.01, swipes with plus or minus 5
C27_Original ==
    /\ SwipesDirect
    /\ TouchScaled
    /\ \A i \in 1..Len(events) :
          events[i].kind = "keydown" =>
             /\ events[i].call.deltaX = TimesHundredth(ArrowDelta(events[i].input))
             /\ AddsToY(events[i].call, events[i].before, events[i].after)

\* C27: touch deltas are multiplied by 0.01 before rotate is called; the
\* arrow keys' deltas (plus or minus 10) and the swipes' deltas (plus or
\* minus 5) are passed to rotate without that factor; rotate then adds
\* deltaX * 0.01 to rotation.y on every path
C27_RotateUnits ==
    /\ SwipesDirect
    /\ TouchScaled
    /\ \A i \in 1..Len(events) :
          events[i].kind = "keydown" =>
             /\ events[i].call.deltaX = Direct(ArrowDelta(events[i].input))
             /\ AddsToY(events[i].call, events[i].before, events[i].after)

\* ArrowRight turned the Earth by 0.1 rad, a drag of 50 pixels by 0.005 rad
\* and a swipe to the right by 0.05 rad
C27_Witness ==
    /\ \E i \in 1..Len(events) :
          /\ events[i].kind = "keydown" /\ events[i].input = "ArrowRight"
          /\ events[i].after.rotation.y - events[i].before.rotation.y = 10000
    /\ \E i \in 1..Len(events) :
          /\ events[i].kind = "touchmove" /\ events[i].call # NoCall
          /\ events[i].call.deltaX = 50
          /\ events[i].after.rotation.y - events[i].before.rotation.y = 500
    /\ \E i \in 1..Len(log) :
          /\ log[i].label = "swipe_right" /\ log[i].call # NoCall
          /\ log[i].post.earth.rotation.y - log[i].pre.earth.rotation.y = 5000

(***************************************************************************)
(* Dropped commands                                                        *)
(***************************************************************************)
\* C28: a gesture command that the debounce drops changes neither the
\* transform of the Earth model nor lastGestureTime, so dropped commands do
\* not prolong the window: a discrete command submitted 100 ms or more after
\* the last discrete command that was applied is applied
C28_DroppedChangesNothing ==
    \A i \in 1..Len(log) :
        /\ (log[i].command # NoCommand /\ ~Applied(i)) =>
              log[i].post.earth = log[i].pre.earth
        /\ (Discrete(i) /\ log[i].time - LastDiscreteApplied(i) >= gestureDebounce) =>
              Applied(i)

\* a swipe was applied, the next one 50 ms later dropped, and the one after
\* it applied exactly 100 ms after the first, 50 ms after the dropped one
C28_Witness ==
    \E i \in 1..Len(log) :
        /\ i + 2 <= Len(log)
        /\ Discrete(i) /\ Applied(i)
        /\ Discrete(i + 1) /\ ~Applied(i + 1)
        /\ Discrete(i + 2) /\ Applied(i + 2)
        /\ log[i + 2].time - log[i].time = gestureDebounce
        /\ log[i + 2].time - log[i + 1].time < gestureDebounce

(***************************************************************************)
(* SpecParts: the four operations of the Earth model and the frames of a   *)
(* reset animation, after a gesture has been seen                          *)
(***************************************************************************)
MaxPartSteps == 6
PartGaps == {400}
PartCalls ==
    {[op |-> "zoom", factor |-> 200],
     [op |-> "rotate", deltaX |-> 500, deltaY |-> 9000],
     [op |-> "resetOrientation"],
     [op |-> "setPosition", x |-> 100, y |-> 0, z |-> -100]}
PartInputs == {[ext |-> Vec(TRUE, TRUE, FALSE, FALSE, FALSE), tip |-> At(30, 50)]}

NextParts ==
    \/ AdvanceTime(PartGaps)
    \/ EarthCall(PartCalls, MaxPartSteps)
    \/ AnimationFrame(MaxPartSteps)
    \/ LandmarkFrame(PartInputs, MaxPartSteps)

SpecParts == Init /\ [][NextParts]_vars

\* what a step that appends the record e to the history of callbacks may
\* change
OwnPart(e) ==
    /\ e.kind \in {"call", "animation"} => UNCHANGED <<lastGestureTime, gestureVars>>
    /\ (e.kind = "call" /\ e.call.op = "zoom") =>
          UNCHANGED <<rotation, position, animations>>
    /\ (e.kind = "call" /\ e.call.op = "rotate") =>
          /\ rotation'.z = rotation.z
          /\ UNCHANGED <<scale, position, animations>>
    /\ (e.kind = "call" /\ e.call.op = "setPosition") =>
          UNCHANGED <<rotation, scale, animations>>
    /\ (e.kind = "call" /\ e.call.op = "resetOrientation") => UNCHANGED position
    /\ e.kind = "animation" => UNCHANGED position

\* C29: a zoom call changes only the scale, a rotate call only rotation.x and
\* rotation.y, a setPosition call only the position, and a reset, in its call
\* and in every step of its animation, never the position; none of them
\* changes lastGestureTime or the gesture state
C29_OwnPartOnly ==
    [][Len(events') > Len(events) => OwnPart(events'[Len(events')])]_vars

\* after a frame with a hand had set the gesture state, zoom changed the
\* scale, rotate the rotation and setPosition the position, and a step of a
\* reset animation then moved scale and rotation and left the position
C29_Witness ==
    /\ lastHandPosition # nullPosition
    /\ position # originalPosition
    /\ \E i \in 1..Len(events) :
          /\ events[i].call.op = "zoom"
          /\ events[i].after.scale # events[i].before.scale
    /\ \E i \in 1..Len(events) :
          /\ events[i].call.op = "rotate"
          /\ events[i].after.rotation.x # events[i].before.rotation.x
          /\ events[i].after.rotation.y # events[i].before.rotation.y
    /\ \E i \in 1..Len(events) :
          /\ events[i].call.op = "setPosition"
          /\ events[i].after.position # events[i].before.position
    /\ \E i \in 1..Len(events) :
          /\ events[i].kind = "animation"
          /\ events[i].after.scale # events[i].before.scale
          /\ events[i].after.rotation # events[i].before.rotation
          /\ events[i].after.position = events[i].before.position
          /\ events[i].after.position # originalPosition

(***************************************************************************)
(* SpecSessionEnd: swipes, an AR session with an anchor, its end, and      *)
(* touch drags                                                             *)
(***************************************************************************)
MaxSessionSteps == 6
SessionGaps == {120}
SessionPoints == {<<100, 0, -100>>}
SessionDrags == {<<50, 0>>}

NextSessionEnd ==
    \/ AdvanceTime(SessionGaps)
    \/ ToggleAR(MaxSessionSteps)
    \/ Resume(MaxSessionSteps)
    \/ SessionEnd(MaxSessionSteps)
    \/ AnchorUpdate(SessionPoints, MaxSessionSteps)
    \/ TouchMove(SessionDrags, MaxSessionSteps)
    \/ LandmarkFrame(TouchInputs, MaxSessionSteps)

SpecSessionEnd == InitEither /\ [][NextSessionEnd]_vars

\* the step is the end of an AR session
SessionEnds == isARActive /\ ~isARActive'

\* the step is a touchmove outside a session, and it rotates the Earth by
\* the drag since the recorded touch point
DragApplied ==
    LET e == events'[Len(events')]
    IN  (e.kind = "touchmove" /\ ~isARActive) =>
           /\ e.call = [op |-> "rotate", deltaX |-> e.input[1] - touchStartX,
                        deltaY |-> e.input[2] - touchStartY]
           /\ rotation'.y = rotation.y + (e.input[1] - touchStartX) * RotStep

\* C30: the step in which an AR session ends changes neither the transform
\* (position, rotation, scale, running animations) nor lastGestureTime nor
\* the gesture state nor the swipe tracking state; and every touchmove while
\* no session is active, so also after a session has ended, rotates the Earth
C30_SessionEndKeepsCore ==
    [][/\ SessionEnds => UNCHANGED <<earthVars, lastGestureTime, gestureVars>>
       /\ Len(events') > Len(events) => DragApplied]_vars

\* a session ended with the Earth at its anchor, a swipe applied and a
\* fingertip sample stored, and the drag after it rotated the Earth, which
\* is still at the anchor
C30_Witness ==
    /\ ~isARActive
    /\ position # originalPosition
    /\ lastGestureTime # 0
    /\ lastHandPosition # nullPosition
    /\ \E i \in 1..Len(events) : \E k \in (i + 1)..Len(events) :
          /\ events[i].kind = "anchor" /\ events[i].active
          /\ events[k].kind = "touchmove" /\ ~events[k].active
          /\ events[k].call.op = "rotate"
          /\ events[k].after.rotation # events[k].before.rotation
          /\ events[k].before.position = events[i].after.position

(***************************************************************************)
(* SpecSessions: clicks on the AR button, direct calls of startARSession   *)
(* and endARSession, the promises they await, sessions that end, dispose   *)
(***************************************************************************)
MaxSessionEvents == 6
SessionEventGaps == {50}

NextSessions ==
    \/ AdvanceTime(SessionEventGaps)
    \/ ToggleAR(MaxSessionEvents)
    \/ StartCall(MaxSessionEvents)
    \/ EndCall(MaxSessionEvents)
    \/ Resume(MaxSessionEvents)
    \/ SessionLost(MaxSessionEvents)
    \/ SessionEnd(MaxSessionEvents)
    \/ Dispose(MaxSessionEvents)

SpecSessions == InitSessions /\ [][NextSessions]_vars

\* C31: navigator.xr.requestSession is never invoked while another request
\* is pending or a session is active, whatever the order of toggleAR and
\* startARSession calls, also when a second call is made while the first
\* awaits its session; and startARSession returns false and changes nothing
\* when AR is unsupported or a session is already active
C31_OneRequestAtATime ==
    \A i \in 1..Len(arLog) :
        /\ arLog[i].kind = "requestSession" =>
              ~arLog[i].pending /\ arLog[i].active = NoSession
        /\ (arLog[i].kind = "return" /\ arLog[i].at = "guard") =>
              ~arLog[i].ret /\ arLog[i].exit = arLog[i].entry

\* the awaits of startARSession after which its catch returns false
FailurePoints == {"requestSession", "requestReferenceSpace", "setSession"}

\* C32: whenever startARSession returns false because the session request,
\* the reference-space request or setSession failed, the manager is as it
\* was before the call: isARActive is false and xrSession and xrRefSpace
\* are null
C32_FailedStartLeavesNothing ==
    \A i \in 1..Len(arLog) :
        (arLog[i].kind = "return" /\ ~arLog[i].ret /\ arLog[i].at \in FailurePoints) =>
            /\ ~arLog[i].exit.isARActive
            /\ arLog[i].exit.xrSession = NoSession
            /\ arLog[i].exit.xrRefSpace = NoSession

\* the sessions that have ended
Ended == {session \in 1..xr.created : session # xr.active}

\* the runs of onARSessionEnd for a session
EndsOf(session) ==
    {i \in 1..Len(arLog) : arLog[i].kind = "end" /\ arLog[i].session = session}

\* the sessions for which startARSession ran to its end and returned true
Started ==
    {session \in 1..xr.created :
        \E i \in 1..Len(arLog) :
            /\ arLog[i].kind = "return" /\ arLog[i].ret
            /\ arLog[i].exit.xrSession = session}

\* dispose() has run before entry i of the history
DisposedBefore(i) == \E k \in 1..(i - 1) : arLog[k].kind = "dispose"

\* what C33 says of every state, of what the end event does to the fields
\* and of endARSession
ActiveHasSession ==
    /\ isARActive => arManager.xrSession # NoSession /\ arManager.xrRefSpace # NoSession
    /\ \A i \in 1..Len(arLog) :
          /\ arLog[i].kind = "end" =>
                arLog[i].exit = [isARActive |-> FALSE, xrSession |-> NoSession,
                                 xrRefSpace |-> NoSession, anchor |-> "null",
                                 anchorSpace |-> "null", hasAnchor |-> FALSE]
          /\ (arLog[i].kind = "endARSession" /\ ~arLog[i].active) =>
                arLog[i].ended = NoSession /\ arLog[i].exit = arLog[i].entry

\* the statement of C33 as written: every session that has ended was
\* reported to onSessionEnd exactly once
C33_Original ==
    /\ ActiveHasSession
    /\ \A session \in Ended :
          /\ Cardinality(EndsOf(session)) = 1
          /\ \A i \in EndsOf(session) : arLog[i].notified

\* C33: in every state isARActive implies that xrSession and xrRefSpace are
\* not null; the end event of a session sets isARActive to false and clears
\* xrSession, xrRefSpace, anchor, anchorSpace and hasAnchor; endARSession
\* does nothing while no session is active; a session for which
\* startARSession returned true has onARSessionEnd run exactly once when it
\* ends, and onSessionEnd is notified in that run unless dispose() has
\* removed the callback before; a session that ends while startARSession
\* is still setting it up has no listener, so its end is not handled
C33_SessionFieldsAndEnd ==
    /\ ActiveHasSession
    /\ \A session \in Ended :
          /\ Cardinality(EndsOf(session)) = IF session \in Started THEN 1 ELSE 0
          /\ \A i \in EndsOf(session) : arLog[i].notified <=> ~DisposedBefore(i)

\* a session was started with a fixed anchor and ended, and onSessionEnd was
\* told; a call of endARSession after that did nothing
C33_Witness ==
    /\ ~isARActive
    /\ \E i \in 1..Len(arLog) : \E k \in (i + 1)..Len(arLog) :
          /\ arLog[i].kind = "return" /\ arLog[i].ret /\ arLog[i].exit.hasAnchor
          /\ arLog[k].kind = "end" /\ arLog[k].session = arLog[i].exit.xrSession
          /\ arLog[k].notified
          /\ \E m \in (k + 1)..Len(arLog) :
                arLog[m].kind = "endARSession" /\ ~arLog[m].active

\* C34: at most one reset animation loop is in flight at any time: a reset
\* accepted while the animation of an earlier reset is still running does
\* not leave two loops that write rotation and scale
C34_OneResetLoop == Len(animations) <= 1

(***************************************************************************)
(* SpecFallback: the same calls made to the EarthModel and to the          *)
(* controller of createBasicEarthFallback.                                 *)
(***************************************************************************)
MaxFallbackSteps == 4
FallbackGaps == {400}

NextFallback ==
    \/ AdvanceTime(FallbackGaps)
    \/ BothCall(PartCalls, MaxFallbackSteps)
    \/ ARFrame(MaxFallbackSteps)
    \/ AnimationFrame(MaxFallbackSteps)

SpecFallback == Init /\ [][NextFallback]_vars

\* C35: the basic fallback controller behaves as the EarthModel interface on
\* the same calls: its scale stays within [0.1, 3.0], its rotation.x within
\* [-PI/2, +PI/2], and a reset brings rotation and scale to the original
\* values of the EarthModel, rotation (0, 0, 0) and scale 0.5
C35_FallbackAsEarthModel ==
    /\ ScaleMin <= basicMesh.scale /\ basicMesh.scale <= ScaleMax
    /\ -HalfPi <= basicMesh.rotation.x /\ basicMesh.rotation.x <= HalfPi
    /\ basicCall.op = "resetOrientation" =>
          basicMesh.rotation = originalRotation /\ basicMesh.scale = OriginalScale

(***************************************************************************)
(* SpecLate: the application disposed while the camera loop is running,    *)
(* with the result of the last image delivered after dispose().            *)
(***************************************************************************)
MaxLateSteps == 5
LateGaps == {120}

NextLate ==
    \/ AdvanceTime(LateGaps)
    \/ LandmarkFrame(ZoomInputs, MaxLateSteps)
    \/ Dispose(MaxLateSteps)
    \/ LateFrame(ZoomInputs, MaxLateSteps)

SpecLate == Init /\ [][NextLate]_vars

\* C36: after GestureController.dispose() no gesture command reaches the
\* arbiter or the Earth model, also when a landmark result that was in
\* flight is delivered to onHandsResults after dispose()
C36_NothingAfterDispose ==
    [][(~isInitialized /\ Len(log') > Len(log)) =>
          /\ log'[Len(log')].command = NoCommand
          /\ log'[Len(log')].call = NoCall
          /\ UNCHANGED <<earthVars, lastGestureTime>>]_vars

(***************************************************************************)
(* SpecTick: landmark callbacks and ticks of the render loop in any order. *)
(***************************************************************************)
MaxTickSteps == 5
TickGaps == {16, 120}
TickInputs ==
    {[ext |-> Vec(FALSE, TRUE, FALSE, FALSE, FALSE), tip |-> At(45, 50)],
     [ext |-> Vec(FALSE, TRUE, TRUE, FALSE, FALSE), tip |-> At(45, 50)]}

InitTick == InitCore /\ ARConstructed(TRUE) /\ \E clouds \in BOOLEAN : PageLoaded(clouds)

NextTick ==
    \/ AdvanceTime(TickGaps)
    \/ LandmarkFrame(TickInputs, MaxTickSteps)
    \/ ARFrame(MaxTickSteps)

SpecTick == InitTick /\ [][NextTick]_vars

\* the ticks so far
Ticks == {i \in 1..Len(events) : events[i].kind = "tick"}

\* the time from the first tick to the latest
Ticking ==
    IF Ticks = {} THEN 0
    ELSE events[CHOOSE i \in Ticks : \A k \in Ticks : k <= i].time
            - events[CHOOSE i \in Ticks : \A k \in Ticks : i <= k].time

\* the inner meshes are where the ticks alone have turned them, whatever
\* landmark callbacks came between the ticks
SpunByTicksOnly ==
    /\ earthMesh.rotationY = rotationSpeed * Ticking
    /\ cloudsMesh # noMesh => cloudsMesh.rotationY = cloudsRotationSpeed * Ticking

\* the call of the latest landmark callback is in effect in the state the
\* callback leaves
InEffect(e) ==
    /\ e.call.op = "zoom" =>
          e.post.earth.scale =
              clamp((e.pre.earth.scale * e.call.factor) \div FactorOne, ScaleMin, ScaleMax)
    /\ e.call.op = "rotate" =>
          e.post.earth.rotation.y = e.pre.earth.rotation.y + e.call.deltaX * RotStep

\* C37: the per-frame tick and the input commands commute: a tick changes
\* only the rotation of the inner Earth mesh and of the cloud layer, never
\* the group transform, lastGestureTime or the gesture state; a landmark
\* callback changes neither inner mesh nor the clock, and the meshes are
\* where the ticks alone put them; a command is in effect in the state its
\* landmark callback leaves, without a tick
C37_TickAndCommandsCommute ==
    /\ []SpunByTicksOnly
    /\ [][Len(events') > Len(events) =>
            UNCHANGED <<earthVars, lastGestureTime, gestureVars>>]_vars
    /\ [][Len(log') > Len(log) =>
            /\ UNCHANGED meshVars
            /\ scale' = log'[Len(log')].post.earth.scale
            /\ rotation' = log'[Len(log')].post.earth.rotation
            /\ InEffect(log'[Len(log')])]_vars

\* a zoom was applied after a tick and another before a later tick that
\* turned the meshes
C37_Witness ==
    \E i \in Ticks : \E k \in Ticks :
        /\ i < k /\ events[k].input > 0
        /\ \E a \in 1..Len(log) : \E b \in 1..Len(log) :
              /\ a < b
              /\ log[a].call # NoCall /\ log[b].call # NoCall
              /\ events[i].time < log[a].time /\ log[b].time < events[k].time
              /\ log[b].post.earth.scale # log[a].pre.earth.scale

(***************************************************************************)
(* SpecPage: the page loaded in every environment, keys and touches after. *)
(***************************************************************************)
MaxPageSteps == 4
PageGaps == {150}
PageCodes == {"KeyR", "Equal", "ArrowLeft"}

NextPage ==
    \/ AdvanceTime(PageGaps)
    \/ DOMContentLoaded(PageEnvironments, MaxPageSteps)
    \/ ModelLoaded(MaxPageSteps)
    \/ InitResumes(MaxPageSteps)
    \/ PageKeyDown(PageCodes, MaxPageSteps)
    \/ PageTouchMove(TouchMovePoints, MaxPageSteps)
    \/ LandmarkFrame(ZoomInputs, MaxPageSteps)

SpecPage == InitPage /\ [][NextPage]_vars

\* the page has loaded with THREE present and without the camera API
LoadedWithoutCamera(i) ==
    /\ events[i].kind = "load"
    /\ events[i].input.three
    /\ ~events[i].input.gestures.mediaDevices

\* C38: when the camera API is missing the application still starts: the
\* AREarthApp is created and initialised, key and touch commands after it are
\* applied, and only gesture commands never fire
C38_StartsWithoutCamera ==
    \A i \in 1..Len(events) :
        LoadedWithoutCamera(i) =>
            /\ arEarthApp
            /\ initResult = "false"
            /\ \A k \in (i + 1)..Len(events) :
                  /\ events[k].kind = "keydown" => events[k].call = onKeyDown(events[k].input)
                  /\ events[k].kind = "touchmove" => events[k].call # NoCall
            /\ \A k \in 1..Len(log) : log[k].command = NoCommand

\* C39: after every landmark callback the gesture indicator is active
\* exactly when currentGesture is not none, and when active it shows the
\* text of the current label; a callback changes the indicator only on a
\* label transition or on a frame without a hand
C39_IndicatorFollowsGesture ==
    \A i \in 1..Len(log) :
        /\ log[i].post.indicator.active <=> log[i].post.currentGesture # null
        /\ log[i].post.indicator.active =>
              log[i].post.indicator.text = indicatorText(log[i].post.currentGesture)
        /\ log[i].post.indicator # log[i].pre.indicator =>
              ~log[i].hand \/ log[i].label # log[i].pre.currentGesture

\* the indicator showed the reset text, went off for a hand without a label
\* and shows the zoom text now
C39_Witness ==
    \E i \in 1..Len(log) : \E k \in 1..Len(log) :
        /\ i < k /\ k < Len(log)
        /\ log[i].post.indicator = [active |-> TRUE, text |-> indicatorText("reset")]
        /\ log[k].hand /\ log[k].label = null /\ ~log[k].post.indicator.active
        /\ log[k].pre.indicator.active
        /\ indicator = [active |-> TRUE, text |-> indicatorText("zoom_in")]

(***************************************************************************)
(* SpecHistory: labelled frames at camera rate and slower.                 *)
(***************************************************************************)
MaxHistoryFrames == 7
HistoryGaps == {33, 400}
HistoryInputs ==
    {[ext |-> Vec(FALSE, TRUE, FALSE, FALSE, FALSE), tip |-> At(45, 50)],
     [ext |-> Vec(TRUE, TRUE, TRUE, TRUE, TRUE), tip |-> At(45, 50)]}

NextHistory ==
    \/ AdvanceTime(HistoryGaps)
    \/ LandmarkFrame(HistoryInputs, MaxHistoryFrames)

SpecHistory == Init /\ [][NextHistory]_vars

\* C40: gestureQueue holds at most maxGestureHistory (5) entries in every
\* reachable state, for any frame rate and any sequence of labels
C40_QueueWithinHistory == Len(gestureQueue) <= maxGestureHistory

(***************************************************************************)
(* SpecCalibrate: the swipe threshold changed between frames of a moving   *)
(* hand.                                                                   *)
(***************************************************************************)
MaxReplaceSteps == 4
ReplaceGaps == {16, 400}
ReplaceConfigs ==
    {[radius |-> 100, texturePaths |-> {}],
     [position |-> [x |-> 100, y |-> 0, z |-> -100]],
     [useGLTF |-> TRUE]}
ReplaceCalls ==
    {[op |-> "zoom", factor |-> 200],
     [op |-> "rotate", deltaX |-> 500, deltaY |-> 0],
     [op |-> "resetOrientation"],
     [op |-> "setPosition", x |-> 0, y |-> 100, z |-> -100]}

NextReplace ==
    \/ AdvanceTime(ReplaceGaps)
    \/ ReplaceEarthModel(ReplaceConfigs, MaxReplaceSteps)
    \/ ModelLoaded(MaxReplaceSteps)
    \/ EarthCall(ReplaceCalls, MaxReplaceSteps)
    \/ ARFrame(MaxReplaceSteps)
    \/ AnimationFrame(MaxReplaceSteps)

SpecReplace == Init /\ [][NextReplace]_vars

MaxCalibrateSteps == 4
CalibrateGaps == {50}
CalibrateSettings ==
    {[swipeThreshold |-> t] : t \in Thresholds} \cup {[gestureTimeThreshold |-> 300]}
CalibrateInputs ==
    {[ext |-> Vec(TRUE, TRUE, FALSE, FALSE, FALSE), tip |-> At(x, 50)] :
        x \in {30, 40, 45, 50}}

NextCalibrate ==
    \/ AdvanceTime(CalibrateGaps)
    \/ Calibrate(CalibrateSettings, MaxCalibrateSteps)
    \/ LandmarkFrame(CalibrateInputs, MaxCalibrateSteps)

SpecCalibrate == Init /\ [][NextCalibrate]_vars

====
